---- MODULE Spec2Model ----
(***************************************************************************)
(* A model of the Pluto crypto tracker backend                             *)
(* (pluto-crypto-tracker/backend/src/server.ts): the Playwright scraper    *)
(* TradingViewScraper (registry of per-ticker pages, sampling timers,      *)
(* multi-strategy price extraction, update queue) and the server's         *)
(* SSE broadcast path (broadcast queue, client set, keep-alive).           *)
(*                                                                         *)
(* The specifications share the variables:                                 *)
(*   SpecExtract  the pure extraction function applied to bounded pages    *)
(*   Spec         the registry / monitor concurrency (await points of      *)
(*                addTicker, removeTicker and the interval callback)        *)
(*   SpecMonitor  one running Monitor over several, possibly overlapping,  *)
(*                firings of its timer                                     *)
(*   SpecBatch    the timed pipeline queuePriceUpdate -> SSE clients,      *)
(*                followed in steps of 10 ms                               *)
(*   SpecClients  the same pipeline and the life of the SSE connections    *)
(*                (keep-alive, socket events), followed from timer to timer *)
(*   SpecReconnect  SpecClients with clients that connect at any time      *)
(*   SpecHang     two tickers, one of which hangs in its extraction,       *)
(*                under weak fairness of the other's steps                 *)
(*   SpecCase     addTicker with identifiers that differ in letter case    *)
(*   SpecStreams  the streamPrices calls next to the batching pipeline     *)
(*   SpecRemove   addTicker and removeTicker of one ticker next to the     *)
(*                batching pipeline                                        *)
(*   SpecSteady   the batching pipeline under Samples that need not end,   *)
(*                under weak fairness of the timers and the clock          *)
(***************************************************************************)
EXTENDS Integers, Sequences, FiniteSets, TLC

(***************************************************************************)
(* Numbers.  A JavaScript number is modelled as a signed decimal           *)
(* m * 10^-e, or NaN.  Values are kept normalised (no trailing zero in     *)
(* the fraction, no negative zero) so that record equality is ===.         *)
(***************************************************************************)
RECURSIVE Pow10(_)
Pow10(n) == IF n = 0 THEN 1 ELSE 10 * Pow10(n - 1)

NaN == [nan |-> TRUE, neg |-> FALSE, m |-> 0, e |-> 0]

RECURSIVE Norm(_)
Norm(v) ==
  IF v.nan THEN NaN
  ELSE IF v.m = 0 THEN [nan |-> FALSE, neg |-> FALSE, m |-> 0, e |-> 0]
  ELSE IF v.e > 0 /\ v.m % 10 = 0
       THEN Norm([nan |-> FALSE, neg |-> v.neg, m |-> v.m \div 10, e |-> v.e - 1])
  ELSE v

Dec(neg, m, e) == Norm([nan |-> FALSE, neg |-> neg, m |-> m, e |-> e])

Zero == Dec(FALSE, 0, 0)

IsNaN(v) == v.nan

\* v > 0, v > 1 (comparisons with NaN are false)
Gt0(v) == ~v.nan /\ ~v.neg /\ v.m > 0
Gt1(v) == Gt0(v) /\ v.m > Pow10(v.e)

\* val > 0.01 && val < 200000  (server.ts:635)
InCryptoRange(v) ==
  /\ Gt0(v)
  /\ (v.e >= 2 => v.m > Pow10(v.e - 2))
  /\ v.m \div Pow10(v.e) < 200000

\* a !== b on numbers: NaN differs from everything, itself included
JsNotEqual(a, b) == a.nan \/ b.nan \/ a # b

\* x || 0 on a number: NaN and 0 are falsy
OrZero(v) == IF v.nan \/ v.m = 0 THEN Zero ELSE v

\* Number(v.toFixed(d)): the magnitude rounded to d decimals, ties up.  (The
\* code decides a decimal tie by the binary value of the number; the modelled
\* texts hold no tie.)
ToFixed(v, d) ==
  IF v.nan THEN NaN
  ELSE IF v.e <= d THEN v
  ELSE LET p == Pow10(v.e - d)
           q == v.m \div p
           r == v.m % p
       IN Dec(v.neg, IF 2 * r >= p THEN q + 1 ELSE q, d)

(***************************************************************************)
(* Text.  A string is a sequence of one-character strings.                 *)
(***************************************************************************)
Digit == {"0", "1", "2", "3", "4", "5", "6", "7", "8", "9"}

DigitVal(c) ==
  CASE c = "0" -> 0 [] c = "1" -> 1 [] c = "2" -> 2 [] c = "3" -> 3
    [] c = "4" -> 4 [] c = "5" -> 5 [] c = "6" -> 6 [] c = "7" -> 7
    [] c = "8" -> 8 [] c = "9" -> 9

Drop(s, n) == SubSeq(s, n + 1, Len(s))
Take(s, n) == SubSeq(s, 1, n)

\* length of the longest prefix of s whose characters are all in C
RECURSIVE RunLen(_, _)
RunLen(s, C) ==
  IF s = << >> \/ Head(s) \notin C THEN 0 ELSE 1 + RunLen(Tail(s), C)

Keep(s, C) == SelectSeq(s, LAMBDA c : c \in C)

RECURSIVE DigitsVal(_, _)
DigitsVal(s, acc) ==
  IF s = << >> THEN acc ELSE DigitsVal(Tail(s), 10 * acc + DigitVal(Head(s)))

\* parseFloat: leading blanks, an optional sign, digits [. digits] | . digits,
\* the rest ignored; NaN when no digit is found.  (No exponent part: the
\* modelled texts hold no letter e after a digit.)
parseFloat(s) ==
  LET s1  == Drop(s, RunLen(s, {" "}))
      sgn == s1 # << >> /\ Head(s1) \in {"+", "-"}
      neg == s1 # << >> /\ Head(s1) = "-"
      s2  == IF sgn THEN Tail(s1) ELSE s1
      ni  == RunLen(s2, Digit)
      s3  == Drop(s2, ni)
      dot == s3 # << >> /\ Head(s3) = "."
      nf  == IF dot THEN RunLen(Tail(s3), Digit) ELSE 0
      ds  == Take(s2, ni) \o (IF dot THEN Take(Tail(s3), nf) ELSE << >>)
  IN IF ni + nf = 0 THEN NaN ELSE Dec(neg, DigitsVal(ds, 0), nf)

\* text.match(/([\d,]+\.[\d]{2,8})/): the first run of digits and commas that is
\* followed by a dot and at least two digits; group 1, or << >> for no match.
\* A leading optional \$ (server.ts:632) does not change group 1.
RECURSIVE PriceMatch(_)
PriceMatch(s) ==
  IF s = << >> THEN << >>
  ELSE LET n == RunLen(s, Digit \cup {","})
       IN IF n = 0 THEN PriceMatch(Tail(s))
          ELSE LET rest == Drop(s, n)
                   k    == IF rest # << >> /\ Head(rest) = "."
                           THEN RunLen(Tail(rest), Digit) ELSE 0
               IN IF k >= 2
                  THEN Take(s, n) \o <<".">> \o Take(Tail(rest), IF k > 8 THEN 8 ELSE k)
                  ELSE PriceMatch(rest)

\* text.match(/([+-]?[\d.]+)%/) when signOptional, /([+-][\d.]+)%/ otherwise:
\* group 1 of the leftmost match, or << >> for no match.
RECURSIVE ChangeMatch(_, _)
ChangeMatch(s, signOptional) ==
  IF s = << >> THEN << >>
  ELSE LET sgn  == Head(s) \in {"+", "-"}
           body == IF sgn THEN Tail(s) ELSE s
           n    == RunLen(body, Digit \cup {"."})
           rest == Drop(body, n)
           ok   == /\ n > 0
                   /\ rest # << >> /\ Head(rest) = "%"
                   /\ (sgn \/ signOptional)
       IN IF ok THEN Take(s, n + (IF sgn THEN 1 ELSE 0))
          ELSE ChangeMatch(Tail(s), signOptional)

(***************************************************************************)
(* The page as the extractor sees it.                                      *)
(*   priceEls   selector index (1..8)  -> textContent of the element found *)
(*   changeEls  selector index (1..7)  -> textContent of the element found *)
(*   tv         window.TradingView.symbol: present, last, change_percent   *)
(*   dom        document.querySelectorAll('*') in document order, each     *)
(*              element with its textContent and its parent's index (0 for *)
(*              the root)                                                  *)
(*   title      document.title                                             *)
(***************************************************************************)
NumPriceSelectors == 8
NumChangeSelectors == 7

NullResult == [kind |-> "null"]

PriceData(ticker, price, changePercent, timestamp) ==
  [kind |-> "sample", ticker |-> ticker, price |-> price,
   changePercent |-> changePercent, timestamp |-> timestamp]

\* server.ts:560-579, one selector: the value it yields, or Zero
PriceOfSelector(pg, i) ==
  IF i \notin DOMAIN pg.priceEls \/ pg.priceEls[i] = << >> THEN Zero
  ELSE LET cleanText == Keep(pg.priceEls[i], Digit \cup {".", ","})
           numericValue == parseFloat(Keep(cleanText, Digit \cup {"."}))
       IN IF ~IsNaN(numericValue) /\ Gt0(numericValue) THEN numericValue ELSE Zero

\* server.ts:560-579: the first selector, from i on, that yields a positive value
RECURSIVE SelectorPriceFrom(_, _)
SelectorPriceFrom(pg, i) ==
  IF i > NumPriceSelectors THEN Zero
  ELSE IF Gt0(PriceOfSelector(pg, i)) THEN PriceOfSelector(pg, i)
  ELSE SelectorPriceFrom(pg, i + 1)

SelectorPrice(pg) == SelectorPriceFrom(pg, 1)

\* server.ts:592-609: the first change selector whose text matches; a match
\* ends the loop even when its number does not parse (NaN)
RECURSIVE SelectorChangeFrom(_, _)
SelectorChangeFrom(pg, i) ==
  IF i > NumChangeSelectors THEN Zero
  ELSE IF i \in DOMAIN pg.changeEls /\ ChangeMatch(pg.changeEls[i], TRUE) # << >>
       THEN parseFloat(ChangeMatch(pg.changeEls[i], TRUE))
  ELSE SelectorChangeFrom(pg, i + 1)

SelectorChange(pg) == SelectorChangeFrom(pg, 1)

\* server.ts:620-625: the window.TradingView.symbol branch of page.evaluate
GlobalObject(pg) ==
  [price |-> OrZero(parseFloat(pg.tv.last)),
   change |-> OrZero(parseFloat(pg.tv.change))]

\* server.ts:628-647: the scan over every element's text
RECURSIVE TextScanFrom(_, _)
TextScanFrom(pg, i) ==
  IF i > Len(pg.dom) THEN [price |-> Zero, change |-> Zero]
  ELSE LET priceMatch == PriceMatch(pg.dom[i].text)
           val == parseFloat(Keep(priceMatch, Digit \cup {"."}))
           parentText == IF pg.dom[i].parent = 0 THEN << >>
                         ELSE pg.dom[pg.dom[i].parent].text
           changeMatch == ChangeMatch(parentText, FALSE)
       IN IF priceMatch # << >> /\ InCryptoRange(val)
          THEN [price |-> val,
                change |-> IF changeMatch # << >> THEN parseFloat(changeMatch) ELSE Zero]
          ELSE TextScanFrom(pg, i + 1)

TextScan(pg) == TextScanFrom(pg, 1)

\* server.ts:615-648: page.evaluate; the text scan runs only when the page
\* exposes no TradingView.symbol object
JsEvaluate(pg) == IF pg.tv.present THEN GlobalObject(pg) ELSE TextScan(pg)

\* server.ts:659-669
TitlePrice(pg) ==
  LET titlePriceMatch == PriceMatch(pg.title)
      titlePrice == parseFloat(Keep(titlePriceMatch, Digit \cup {"."}))
  IN IF titlePriceMatch # << >> /\ Gt0(titlePrice) THEN titlePrice ELSE Zero

\* a result that rounds every price to 2 decimals (used to test that C40
\* depends on the choice of server.ts:680)
MakeSampleTwoDecimals(ticker, price, changePercent, timestamp) ==
  PriceData(ticker, ToFixed(price, 2), ToFixed(changePercent, 2), timestamp)

\* server.ts:678-683
MakeSample(ticker, price, changePercent, timestamp) ==
  PriceData(ticker,
            ToFixed(price, IF Gt1(price) THEN 2 ELSE 8),
            ToFixed(changePercent, 2),
            timestamp)

\* an extractor that makes a price up when no strategy resolves one (used to
\* test that C17 depends on the null of server.ts:673-676)
AfterSelectorsSimulating(ticker, pg, price0, change0, timestamp) ==
  LET jsData == JsEvaluate(pg)
      useJs  == price0 = Zero /\ Gt0(jsData.price)
      price1 == IF useJs THEN jsData.price ELSE price0
      change1 == IF useJs THEN jsData.change ELSE change0
      price2 == IF price1 = Zero THEN TitlePrice(pg) ELSE price1
  IN MakeSample(ticker, IF price2 = Zero THEN Dec(FALSE, 50000, 0) ELSE price2,
                change1, timestamp)

\* server.ts:611-683, entered with the selector results price and changePercent
AfterSelectors(ticker, pg, price0, change0, timestamp) ==
  LET jsData == JsEvaluate(pg)
      useJs  == price0 = Zero /\ Gt0(jsData.price)
      price1 == IF useJs THEN jsData.price ELSE price0
      change1 == IF useJs THEN jsData.change ELSE change0
      price2 == IF price1 = Zero THEN TitlePrice(pg) ELSE price1
  IN IF price2 = Zero THEN NullResult
     ELSE MakeSample(ticker, price2, change1, timestamp)

\* server.ts:548-670 the price and the changePercent the strategies have
\* resolved when the result is built
Resolved(pg) ==
  LET price0 == SelectorPrice(pg)
      jsData == JsEvaluate(pg)
      useJs  == price0 = Zero /\ Gt0(jsData.price)
      price1 == IF useJs THEN jsData.price ELSE price0
  IN [price |-> IF price1 = Zero THEN TitlePrice(pg) ELSE price1,
      changePercent |-> IF useJs THEN jsData.change ELSE SelectorChange(pg)]

\* server.ts:533-689 on a page that stays open and unchanged during the call
extractRealPriceData(ticker, pg, timestamp) ==
  AfterSelectors(ticker, pg, SelectorPrice(pg), SelectorChange(pg), timestamp)

(***************************************************************************)
(* Sets the model draws its inputs from.                                   *)
(***************************************************************************)
Tickers == {"BTCUSD", "ETHUSD"}

T45250 == <<"4", "5", ",", "2", "5", "0", ".", "7", "5">>
TTiny == <<"0", ".", "0", "0", "0", "0", "0", "0", "0", "0", "4">>
TWords == <<"B", "T", "C">>
TZeroThen97 == <<"$", "0", ".", "0", "0">>
T97 == <<" ", "9", "7", ".", "5", "0", " ">>
T1006 == <<"1", ".", "0", "0", "6">>
T0999 == <<"0", ".", "9", "9", "9">>
TOne == <<"1", ".", "0", "0">>
TNinth == <<"0", ".", "1", "2", "3", "4", "5", "6", "7", "8", "9">>
TUp == <<"+", "2", ".", "5", "0", "%">>
TUp3 == <<"+", "2", ".", "5", "6", "7", "%">>
TDown == <<"(", "-", "1", ".", "2", "%", ")">>
TDots == <<".", "%">>
TTitle == <<"B", "T", "C", " ">> \o T45250 \o <<" ", "U", "S", "D">>
TTitleTiny == <<"X", " ">> \o TTiny

NoEls == << >>
NoTv == [present |-> FALSE, last |-> << >>, change |-> << >>]
Tv(last, change) == [present |-> TRUE, last |-> last, change |-> change]

\* <html> holding one price element and one change element
DomPrice ==
  << [text |-> T45250 \o TUp, parent |-> 0],
     [text |-> T45250, parent |-> 1],
     [text |-> TUp, parent |-> 1] >>
\* the first number of the document is out of range, a later element is in range
DomSecond ==
  << [text |-> <<"0", ".", "0", "0", " ">> \o T97 \o TDown, parent |-> 0],
     [text |-> <<"0", ".", "0", "0">>, parent |-> 1],
     [text |-> T97 \o TDown, parent |-> 1],
     [text |-> T97, parent |-> 3] >>
DomWords == << [text |-> TWords, parent |-> 0] >>
\* a document whose only text is a price
DomBare == << [text |-> T97, parent |-> 0] >>

PriceElsChoices ==
  { NoEls, 1 :> TWords, 2 :> T45250, 1 :> TTiny, (1 :> TZeroThen97) @@ (3 :> T97),
    1 :> T1006, 1 :> T0999, 1 :> TOne, 1 :> TNinth }
ChangeElsChoices == { NoEls, 1 :> TUp, 2 :> TDown, 1 :> TDots, 1 :> TUp3 }
TvChoices ==
  { NoTv, Tv(<< >>, << >>), Tv(<< >>, TUp), Tv(T97, <<"-", "0", ".", "5">>),
    Tv(TTiny, << >>) }
DomChoices == { << >>, DomWords, DomPrice, DomSecond, DomBare }
TitleChoices == { << >>, TTitle, TTitleTiny }

ExtractPages ==
  [priceEls : PriceElsChoices, changeEls : ChangeElsChoices, tv : TvChoices,
   dom : DomChoices, title : TitleChoices]

(***************************************************************************)
(* State.                                                                  *)
(***************************************************************************)
VARIABLES
  activeTickers,     \* TradingViewScraper.activeTickers: ticker -> TickerState
  pages,             \* the pages of the browser context: id -> status, ticker
  intervals,         \* pages whose monitoring setInterval is running
  inflight,          \* interval callbacks suspended in extractRealPriceData
  calls,             \* addTicker / removeTicker calls: pc, ticker, page, result
  updateQueue,       \* TradingViewScraper.updateQueue, in insertion order
  batchUpdateTimer,  \* TradingViewScraper.batchUpdateTimer: armed, due
  priceCallbacks,    \* TradingViewScraper.priceCallbacks
  forwarded,         \* the latest call of queuePriceUpdate (observation)
  broadcastQueue,    \* server: broadcastQueue
  broadcastTimer,    \* server: broadcastTimer: armed, due
  sseClients,        \* server: sseClients, in insertion order
  conns,             \* the /api/stream connections: socket, clientId, keepAlive
  written,           \* what was written to each connection (observation)
  streams,           \* the streamPrices calls: status, priceUpdates, lastSentIndex
  now,               \* Date.now(), in ms
  xPage,             \* SpecExtract: the page handed to the extractor
  xResult,           \* SpecExtract: what extractRealPriceData returned
  fired              \* how often a monitoring interval has fired (bounds the run)

scraperVars ==
  <<activeTickers, pages, intervals, inflight, calls, updateQueue,
    batchUpdateTimer, priceCallbacks, forwarded>>
serverVars == <<broadcastQueue, broadcastTimer, sseClients, conns, written, streams>>
extractVars == <<xPage, xResult>>
vars == <<scraperVars, serverVars, now, extractVars, fired>>

NoTimer == [armed |-> FALSE, due |-> 0]
Timer(due) == [armed |-> TRUE, due |-> due]

(***************************************************************************)
(* SpecExtract: extractRealPriceData applied to every page of ExtractPages *)
(***************************************************************************)
Pending == [kind |-> "pending"]

InitExtractIdle ==
  /\ xPage = [priceEls |-> NoEls, changeEls |-> NoEls, tv |-> NoTv,
              dom |-> << >>, title |-> << >>]
  /\ xResult = Pending

Extract ==
  /\ xResult = Pending
  /\ xResult' = extractRealPriceData("BTCUSD", xPage, now)
  /\ UNCHANGED <<xPage, scraperVars, serverVars, now, fired>>

(***************************************************************************)
(* The scraper: registry, pages, sampling timers.                          *)
(* Every await of the code is a suspension point: a call or callback is a  *)
(* record with a pc, and each action runs one synchronous stretch of code  *)
(* from one resumption to the next await.                                  *)
(***************************************************************************)
MaxCalls == 3        \* addTicker / removeTicker calls in one behaviour
MaxInFlight == 1     \* interval callbacks of one timer suspended at once
MaxFires == 1        \* firings of monitoring intervals in one behaviour

BATCH_DELAY == 50
UPDATE_INTERVAL == 1000

CallIds == 1 .. MaxCalls
PageIds == CallIds   \* the page created by call c is page c

\* what a page may show when the extractor reads it
PgSelector ==
  [priceEls |-> 2 :> T45250, changeEls |-> 1 :> TUp, tv |-> NoTv,
   dom |-> << >>, title |-> << >>]
PgTitle ==
  [priceEls |-> NoEls, changeEls |-> NoEls, tv |-> NoTv,
   dom |-> DomWords, title |-> TTitle]
PgEmpty ==
  [priceEls |-> NoEls, changeEls |-> NoEls, tv |-> NoTv,
   dom |-> DomWords, title |-> << >>]
MonitorPages == {PgSelector, PgTitle, PgEmpty}

IdleCall ==
  [op |-> "none", ticker |-> "", pc |-> "idle", page |-> 0, price |-> Zero,
   removeSeen |-> {}, removeDone |-> FALSE]
NoPage == [status |-> "unused", ticker |-> "", onClose |-> FALSE, lastSeen |-> << >>]

\* a page call resolves normally / rejects (a page being closed may do either)
Readable(p) == pages[p].status \in {"open", "closing"}
Failing(p) == pages[p].status \in {"closing", "closed"}

Pair(d) == <<d.price, d.changePercent>>

\* Map.set on an insertion-ordered Map held as a sequence of PriceData
QueueSet(q, data) ==
  IF \E i \in 1 .. Len(q) : q[i].ticker = data.ticker
  THEN [i \in 1 .. Len(q) |-> IF q[i].ticker = data.ticker THEN data ELSE q[i]]
  ELSE Append(q, data)

\* server.ts:706-718 queuePriceUpdate(data); src describes the extraction the
\* Sample came from (kept in the observation log only)
QueuePriceUpdate(data, src) ==
  /\ updateQueue' = QueueSet(updateQueue, data)
  /\ batchUpdateTimer' = Timer(now + BATCH_DELAY)
  /\ forwarded' = <<[sample |-> data] @@ src>>

NoForward == UNCHANGED <<updateQueue, batchUpdateTimer, forwarded>>

\* the smallest call slot not used yet
NextCall(c) == calls[c].pc = "idle" /\ \A d \in CallIds : d < c => calls[d].pc # "idle"

\* observation: the removeTicker calls made while an extraction is suspended
\* (removeSeen), and whether one of them has returned since (removeDone)
SeeCall(x, t, c) ==
  IF x.ticker = t THEN [x EXCEPT !.removeSeen = @ \cup {c}] ELSE x
SeeReturn(x, c) ==
  IF c \in x.removeSeen THEN [x EXCEPT !.removeDone = TRUE] ELSE x
Suspended(call) == call.op = "add" /\ call.pc \in {"extract", "extractChange"}

\* addTicker without the test of server.ts:458 (used to test that C11 depends
\* on it)
AddTickerCallNoCheck(c, t) ==
  /\ NextCall(c)
  /\ calls' = [calls EXCEPT ![c] =
       [IdleCall EXCEPT !.op = "add", !.ticker = t, !.pc = "newPage"]]
  /\ UNCHANGED <<activeTickers, pages, intervals, inflight, updateQueue,
                 batchUpdateTimer, priceCallbacks, forwarded, serverVars, now,
                 extractVars, fired>>

\* server.ts:453-467 addTicker up to its first await
AddTickerCall(c, t) ==
  /\ NextCall(c)
  /\ calls' = [calls EXCEPT ![c] =
       [IdleCall EXCEPT !.op = "add", !.ticker = t,
                        !.pc = IF t \in DOMAIN activeTickers THEN "ok" ELSE "newPage"]]
  /\ UNCHANGED <<activeTickers, pages, intervals, inflight, updateQueue,
                 batchUpdateTimer, priceCallbacks, forwarded, serverVars, now,
                 extractVars, fired>>

\* an addTicker that registers the ticker as soon as its page exists, before
\* the navigation (used to test that C12 depends on the registration coming
\* after the awaits, server.ts:477)
NewPageResolvesRegistering(c, ok) ==
  /\ calls[c].pc = "newPage"
  /\ IF ok
     THEN /\ pages' = [pages EXCEPT ![c] =
                 [NoPage EXCEPT !.status = "open", !.ticker = calls[c].ticker]]
          /\ calls' = [calls EXCEPT ![c].pc = "goto", ![c].page = c]
          /\ activeTickers' =
               (calls[c].ticker :>
                  [lastPrice |-> Zero, lastChange |-> Zero, lastUpdate |-> 0,
                   monitoringActive |-> TRUE, page |-> c]) @@ activeTickers
     ELSE /\ calls' = [calls EXCEPT ![c].pc = "failed"]
          /\ UNCHANGED <<pages, activeTickers>>
  /\ UNCHANGED <<intervals, inflight, updateQueue,
                 batchUpdateTimer, priceCallbacks, forwarded, serverVars, now,
                 extractVars, fired>>

\* server.ts:467-473 context.newPage() resolves or throws; page.goto starts
NewPageResolves(c, ok) ==
  /\ calls[c].pc = "newPage"
  /\ IF ok
     THEN /\ pages' = [pages EXCEPT ![c] =
                 [NoPage EXCEPT !.status = "open", !.ticker = calls[c].ticker]]
          /\ calls' = [calls EXCEPT ![c].pc = "goto", ![c].page = c]
     ELSE /\ calls' = [calls EXCEPT ![c].pc = "failed"]
          /\ UNCHANGED pages
  /\ UNCHANGED <<activeTickers, intervals, inflight, updateQueue,
                 batchUpdateTimer, priceCallbacks, forwarded, serverVars, now,
                 extractVars, fired>>

\* server.ts:473-474 page.goto resolves or throws; waitForTimeout starts
GotoResolves(c, ok) ==
  /\ calls[c].pc = "goto"
  /\ calls' = [calls EXCEPT ![c].pc = IF ok THEN "wait" ELSE "failed"]
  /\ UNCHANGED <<activeTickers, pages, intervals, inflight, updateQueue,
                 batchUpdateTimer, priceCallbacks, forwarded, serverVars, now,
                 extractVars, fired>>

NewTickerState(p) ==
  [lastPrice |-> Zero, lastChange |-> Zero, lastUpdate |-> 0,
   monitoringActive |-> TRUE, page |-> p]

\* server.ts:474-486, 495-499 the wait ends: the ticker is registered and
\* startRealTimeMonitoring suspends in the initial extraction
WaitResolves(c) ==
  /\ calls[c].pc = "wait"
  /\ activeTickers' = (calls[c].ticker :> NewTickerState(calls[c].page)) @@ activeTickers
  /\ calls' = [calls EXCEPT ![c].pc = "extract"]
  /\ UNCHANGED <<pages, intervals, inflight, updateQueue,
                 batchUpdateTimer, priceCallbacks, forwarded, serverVars, now,
                 extractVars, fired>>

\* one extraction, split where the page may close under it.
\* First stretch (server.ts:541-579): the price selectors.  When one resolves,
\* the change selectors follow (next = "change"); their page calls are inside
\* try/catch, so a closed page leaves changePercent 0.  When none resolves the
\* rest (server.ts:592-676) runs on the same page; page.evaluate and page.title
\* are outside the inner try/catch, so a closed page ends in the outer catch.
PriceStep(t, pg) ==
  IF Gt0(SelectorPrice(pg))
  THEN [next |-> "change", price |-> SelectorPrice(pg), result |-> NullResult]
  ELSE [next |-> "done", price |-> Zero,
        result |-> AfterSelectors(t, pg, Zero, SelectorChange(pg), now)]

PricePhase(p, t) ==
  (IF Readable(p) THEN {PriceStep(t, pg) : pg \in MonitorPages} ELSE {})
  \cup (IF Failing(p)
        THEN {[next |-> "done", price |-> Zero, result |-> NullResult]} ELSE {})

\* second stretch (server.ts:592-609, 678-683)
ChangePhase(p, t, price) ==
  (IF Readable(p)
   THEN {MakeSample(t, price, SelectorChange(pg), now) : pg \in MonitorPages} ELSE {})
  \cup (IF Failing(p) THEN {MakeSample(t, price, Zero, now)} ELSE {})

\* the page calls of a stretch on page p resolve, or reject
Settles(p, rejects) == IF rejects THEN Failing(p) ELSE Readable(p)

\* the outcome of a stretch on a page that shows pg, or whose calls reject: an
\* element of PricePhase, of ChangePhase
PriceOutcome(t, pg, rejects) ==
  IF rejects THEN [next |-> "done", price |-> Zero, result |-> NullResult]
  ELSE PriceStep(t, pg)
ChangeOutcome(t, price, pg, rejects) ==
  MakeSample(t, price, IF rejects THEN Zero ELSE SelectorChange(pg), now)

\* observation: the pair of the latest successful extraction cycle on page p
Seen(ps, p, result) ==
  IF result.kind = "sample" THEN [ps EXCEPT ![p].lastSeen = <<Pair(result)>>] ELSE ps

Src(p, x) ==
  [page |-> p, prev |-> pages[p].lastSeen, removeSeen |-> x.removeSeen # {},
   removeDone |-> x.removeDone]

\* server.ts:499-531 the initial extraction returned: forward it, start the
\* timer, register the close handler; addTicker returns
FinishInitial(c, result) ==
  /\ IF result.kind = "sample"
     THEN QueuePriceUpdate(result, Src(calls[c].page, calls[c]))
     ELSE NoForward
  /\ intervals' = intervals \cup {calls[c].page}
  /\ pages' = [Seen(pages, calls[c].page, result) EXCEPT ![calls[c].page].onClose = TRUE]
  /\ calls' = [calls EXCEPT ![c].pc = "ok"]
  /\ UNCHANGED <<activeTickers, inflight, priceCallbacks, serverVars, now, extractVars, fired>>

\* the initial extraction's first stretch ended with outcome o
InitialPriceSettles(c, o) ==
  IF o.next = "change"
  THEN /\ calls' = [calls EXCEPT ![c].pc = "extractChange", ![c].price = o.price]
       /\ UNCHANGED <<activeTickers, pages, intervals, inflight, updateQueue,
                      batchUpdateTimer, priceCallbacks, forwarded, serverVars,
                      now, extractVars, fired>>
  ELSE FinishInitial(c, o.result)

InitialExtractPrice(c) ==
  /\ calls[c].op = "add" /\ calls[c].pc = "extract"
  /\ \E pg \in MonitorPages, rejects \in BOOLEAN :
       /\ Settles(calls[c].page, rejects)
       /\ InitialPriceSettles(c, PriceOutcome(calls[c].ticker, pg, rejects))

InitialExtractChange(c) ==
  /\ calls[c].op = "add" /\ calls[c].pc = "extractChange"
  /\ \E pg \in MonitorPages, rejects \in BOOLEAN :
       /\ Settles(calls[c].page, rejects)
       /\ FinishInitial(c, ChangeOutcome(calls[c].ticker, calls[c].price, pg, rejects))

\* a scheduler that samples the tickers one at a time: a callback starts only
\* when no extraction is suspended (used to test that C23 depends on every
\* Monitor having its own timer)
IntervalFiresSerial(p) ==
  /\ p \in intervals
  /\ inflight = << >>
  /\ \A c \in CallIds : ~Suspended(calls[c])
  /\ fired' = fired + 1
  /\ inflight' = Append(inflight,
       [page |-> p, ticker |-> pages[p].ticker, phase |-> "price", price |-> Zero,
        removeSeen |-> {}, removeDone |-> FALSE])
  /\ UNCHANGED <<activeTickers, pages, intervals, calls, updateQueue,
                 batchUpdateTimer, priceCallbacks, forwarded, serverVars, now,
                 extractVars>>

\* server.ts:505-507 the interval fires: a callback starts its extraction,
\* whether or not earlier callbacks of the timer are still suspended
IntervalFires(p) ==
  /\ p \in intervals
  /\ fired' = fired + 1
  /\ inflight' = Append(inflight,
       [page |-> p, ticker |-> pages[p].ticker, phase |-> "price", price |-> Zero,
        removeSeen |-> {}, removeDone |-> FALSE])
  /\ UNCHANGED <<activeTickers, pages, intervals, calls, updateQueue,
                 batchUpdateTimer, priceCallbacks, forwarded, serverVars, now,
                 extractVars>>

\* the callbacks of page p's timer that are suspended
InFlightOf(p) == Len(SelectSeq(inflight, LAMBDA f : f.page = p))

\* the firings followed in Spec: MaxFires in all, MaxInFlight at once per timer
BoundedIntervalFires(p) ==
  /\ fired < MaxFires
  /\ InFlightOf(p) < MaxInFlight
  /\ IntervalFires(p)

RemoveAt(q, i) == SubSeq(q, 1, i - 1) \o SubSeq(q, i + 1, Len(q))

\* a callback that forwards every Sample it extracts (used to test that C26
\* depends on the comparison of server.ts:512)
ShouldForwardAlways(priceData) ==
  /\ priceData.kind = "sample"
  /\ priceData.ticker \in DOMAIN activeTickers
  /\ activeTickers[priceData.ticker].monitoringActive

\* server.ts:508-521 the condition under which the callback records and forwards
ShouldForward(priceData) ==
  /\ priceData.kind = "sample"
  /\ priceData.ticker \in DOMAIN activeTickers
  /\ activeTickers[priceData.ticker].monitoringActive
  /\ \/ JsNotEqual(priceData.price, activeTickers[priceData.ticker].lastPrice)
     \/ JsNotEqual(priceData.changePercent, activeTickers[priceData.ticker].lastChange)

\* a callback that stops its timer when the extraction fails (used to test that
\* C19 depends on a failed cycle leaving the timer alone)
FinishTickStopping(i, priceData) ==
  /\ IF ShouldForward(priceData)
     THEN /\ activeTickers' = [activeTickers EXCEPT ![priceData.ticker] =
                 [@ EXCEPT !.lastPrice = priceData.price,
                           !.lastChange = priceData.changePercent,
                           !.lastUpdate = priceData.timestamp]]
          /\ QueuePriceUpdate(priceData, Src(inflight[i].page, inflight[i]))
     ELSE /\ UNCHANGED activeTickers
          /\ NoForward
  /\ pages' = Seen(pages, inflight[i].page, priceData)
  /\ inflight' = RemoveAt(inflight, i)
  /\ intervals' = IF priceData.kind = "null" THEN intervals \ {inflight[i].page}
                  ELSE intervals
  /\ UNCHANGED <<calls, priceCallbacks, serverVars, now, extractVars, fired>>

\* server.ts:507-524 the callback's extraction returned
FinishTick(i, priceData) ==
  /\ IF ShouldForward(priceData)
     THEN /\ activeTickers' = [activeTickers EXCEPT ![priceData.ticker] =
                 [@ EXCEPT !.lastPrice = priceData.price,
                           !.lastChange = priceData.changePercent,
                           !.lastUpdate = priceData.timestamp]]
          /\ QueuePriceUpdate(priceData, Src(inflight[i].page, inflight[i]))
     ELSE /\ UNCHANGED activeTickers
          /\ NoForward
  /\ pages' = Seen(pages, inflight[i].page, priceData)
  /\ inflight' = RemoveAt(inflight, i)
  /\ UNCHANGED <<intervals, calls, priceCallbacks, serverVars, now, extractVars, fired>>

\* the first stretch of a callback's extraction ended with outcome o
TickPriceSettles(i, o) ==
  IF o.next = "change"
  THEN /\ inflight' = [inflight EXCEPT ![i].phase = "change", ![i].price = o.price]
       /\ UNCHANGED <<activeTickers, pages, intervals, calls, updateQueue,
                      batchUpdateTimer, priceCallbacks, forwarded, serverVars,
                      now, extractVars, fired>>
  ELSE FinishTick(i, o.result)

TickExtractPrice(i) ==
  /\ i \in 1 .. Len(inflight) /\ inflight[i].phase = "price"
  /\ \E pg \in MonitorPages, rejects \in BOOLEAN :
       /\ Settles(inflight[i].page, rejects)
       /\ TickPriceSettles(i, PriceOutcome(inflight[i].ticker, pg, rejects))

TickExtractChange(i) ==
  /\ i \in 1 .. Len(inflight) /\ inflight[i].phase = "change"
  /\ \E pg \in MonitorPages, rejects \in BOOLEAN :
       /\ Settles(inflight[i].page, rejects)
       /\ FinishTick(i, ChangeOutcome(inflight[i].ticker, inflight[i].price, pg, rejects))

\* a removeTicker that rejects an unknown ticker (used to test that C16 depends
\* on the silent return of server.ts:694-695)
RemoveTickerStrict(c, t) ==
  /\ NextCall(c)
  /\ LET found == t \in DOMAIN activeTickers
         p == IF found THEN activeTickers[t].page ELSE 0
     IN /\ calls' = [calls EXCEPT ![c] =
                       [IdleCall EXCEPT !.op = "remove", !.ticker = t, !.page = p,
                                        !.pc = IF found THEN "close" ELSE "failed"]]
        /\ pages' = IF found /\ pages[p].status = "open"
                    THEN [pages EXCEPT ![p].status = "closing"] ELSE pages
  /\ UNCHANGED <<activeTickers, intervals, inflight, updateQueue, batchUpdateTimer,
                 priceCallbacks, forwarded, serverVars, now, extractVars, fired>>

\* server.ts:691-699 removeTicker up to await state.page.close()
RemoveTickerCall(c, t) ==
  /\ NextCall(c)
  /\ LET found == t \in DOMAIN activeTickers
         p == IF found THEN activeTickers[t].page ELSE 0
         seen == [d \in CallIds |->
                    IF Suspended(calls[d]) THEN SeeCall(calls[d], t, c) ELSE calls[d]]
         seenF == [i \in 1 .. Len(inflight) |-> SeeCall(inflight[i], t, c)]
     IN /\ calls' = [IF found THEN seen ELSE [d \in CallIds |-> SeeReturn(seen[d], c)]
                       EXCEPT ![c] =
                         [IdleCall EXCEPT !.op = "remove", !.ticker = t, !.page = p,
                                          !.pc = IF found THEN "close" ELSE "ok"]]
        /\ inflight' = IF found THEN seenF
                       ELSE [i \in 1 .. Len(inflight) |-> SeeReturn(seenF[i], c)]
        /\ pages' = IF found /\ pages[p].status = "open"
                    THEN [pages EXCEPT ![p].status = "closing"] ELSE pages
  /\ UNCHANGED <<activeTickers, intervals, updateQueue, batchUpdateTimer,
                 priceCallbacks, forwarded, serverVars, now, extractVars, fired>>

\* server.ts:698-703, 528-530 page.close() resolves: the page is closed, its
\* close handler (when registered) clears the interval, the entry is deleted
CloseResolves(c) ==
  /\ calls[c].op = "remove" /\ calls[c].pc = "close"
  /\ LET p == calls[c].page IN
       /\ pages' = [pages EXCEPT ![p].status = "closed"]
       /\ intervals' = IF pages[p].onClose /\ pages[p].status # "closed"
                       THEN intervals \ {p} ELSE intervals
  /\ activeTickers' = [t \in DOMAIN activeTickers \ {calls[c].ticker} |-> activeTickers[t]]
  /\ calls' = [[d \in CallIds |-> SeeReturn(calls[d], c)] EXCEPT ![c].pc = "ok"]
  /\ inflight' = [i \in 1 .. Len(inflight) |-> SeeReturn(inflight[i], c)]
  /\ UNCHANGED <<updateQueue, batchUpdateTimer, priceCallbacks, forwarded,
                 serverVars, now, extractVars, fired>>


(***************************************************************************)
(* getActiveTickers (server.ts:779-781).  Array.prototype.sort without a   *)
(* comparator orders strings by their UTF-16 code units.                   *)
(***************************************************************************)
CodeUnits(t) ==
  CASE t = "BTCUSD" -> <<66, 84, 67, 85, 83, 68>>
    [] t = "ETHUSD" -> <<69, 84, 72, 85, 83, 68>>

\* a < b on sequences of code units
RECURSIVE UnitsLess(_, _)
UnitsLess(a, b) ==
  IF b = << >> THEN FALSE
  ELSE IF a = << >> THEN TRUE
  ELSE IF Head(a) # Head(b) THEN Head(a) < Head(b)
  ELSE UnitsLess(Tail(a), Tail(b))

StringLess(s, t) == UnitsLess(CodeUnits(s), CodeUnits(t))

\* x put into the sorted sequence r
RECURSIVE SortedInsert(_, _)
SortedInsert(r, x) ==
  IF r = << >> THEN <<x>>
  ELSE IF StringLess(x, Head(r)) THEN <<x>> \o r
  ELSE <<Head(r)>> \o SortedInsert(Tail(r), x)

RECURSIVE ArraySort(_)
ArraySort(a) == IF a = << >> THEN << >> ELSE SortedInsert(ArraySort(Tail(a)), Head(a))

\* the keys as the Map yields them (used to test that C15 depends on the sort)
KeysAsStored(keys) == keys

\* server.ts:780, keys: Array.from(this.activeTickers.keys())
getActiveTickers(keys) == ArraySort(keys)

\* the orders in which the Map may hold its keys
KeyOrders ==
  {ks \in [1 .. Cardinality(DOMAIN activeTickers) -> DOMAIN activeTickers] :
     \A i, j \in DOMAIN ks : ks[i] = ks[j] => i = j}

(***************************************************************************)
(* Initial state: main() has run (server.ts:74-158): the scraper is        *)
(* initialised with no ticker, the server's batching listener is the only  *)
(* registered callback, no client is connected.                            *)
(***************************************************************************)
MaxConns == 2        \* /api/stream connections in one behaviour
ConnIds == 1 .. MaxConns

StreamIds == {"s1", "s2"}   \* the updateListener closures of the streamPrices calls

NoStream ==
  [status |-> "none", priceUpdates |-> << >>, lastSentIndex |-> 0, threw |-> FALSE]

NoConn ==
  [socket |-> "none", id |-> "", keepAlive |-> NoTimer, events |-> {}, keepAlives |-> 0]

InitScraper ==
  /\ activeTickers = << >>
  /\ pages = [p \in PageIds |-> NoPage]
  /\ intervals = {}
  /\ inflight = << >>
  /\ calls = [c \in CallIds |-> IdleCall]
  /\ updateQueue = << >>
  /\ batchUpdateTimer = NoTimer
  /\ priceCallbacks = {"sse"}
  /\ forwarded = << >>

InitServer ==
  /\ broadcastQueue = << >>
  /\ broadcastTimer = NoTimer
  /\ sseClients = << >>
  /\ conns = [k \in ConnIds |-> NoConn]
  /\ written = [k \in ConnIds |-> << >>]
  /\ streams = [s \in StreamIds |-> NoStream]

Init == InitScraper /\ InitServer /\ now = 0 /\ InitExtractIdle /\ fired = 0

Next ==
  \/ \E c \in CallIds, t \in Tickers : AddTickerCall(c, t)
  \/ \E c \in CallIds, ok \in BOOLEAN : NewPageResolves(c, ok)
  \/ \E c \in CallIds, ok \in BOOLEAN : GotoResolves(c, ok)
  \/ \E c \in CallIds : WaitResolves(c)
  \/ \E c \in CallIds : InitialExtractPrice(c)
  \/ \E c \in CallIds : InitialExtractChange(c)
  \/ \E p \in PageIds : BoundedIntervalFires(p)
  \/ \E i \in 1 .. MaxCalls * MaxInFlight : TickExtractPrice(i)
  \/ \E i \in 1 .. MaxCalls * MaxInFlight : TickExtractChange(i)
  \/ \E c \in CallIds, t \in Tickers : RemoveTickerCall(c, t)
  \/ \E c \in CallIds : CloseResolves(c)

Spec == Init /\ [][Next]_vars

InitExtract ==
  /\ InitScraper /\ InitServer /\ now = 0 /\ fired = 0
  /\ xPage \in ExtractPages
  /\ xResult = Pending

NextExtract == Extract

SpecExtract == InitExtract /\ [][NextExtract]_vars

(***************************************************************************)
(* SpecMonitor: one Monitor followed over several firings of its timer.    *)
(* The first call is the only addTicker, for "BTCUSD"; the callbacks of    *)
(* the timer it starts may overlap.                                        *)
(***************************************************************************)
MaxMonitorFires == 3  \* firings of the timer in one behaviour
MaxOverlap == 2       \* callbacks of the timer suspended at once

\* the firings followed in SpecMonitor
OverlappingIntervalFires(p) ==
  /\ fired < MaxMonitorFires
  /\ InFlightOf(p) < MaxOverlap
  /\ IntervalFires(p)

NextMonitor ==
  \/ AddTickerCall(1, "BTCUSD")
  \/ \E ok \in BOOLEAN : NewPageResolves(1, ok)
  \/ \E ok \in BOOLEAN : GotoResolves(1, ok)
  \/ WaitResolves(1)
  \/ InitialExtractPrice(1)
  \/ InitialExtractChange(1)
  \/ \E p \in PageIds : OverlappingIntervalFires(p)
  \/ \E i \in 1 .. MaxOverlap : TickExtractPrice(i)
  \/ \E i \in 1 .. MaxOverlap : TickExtractChange(i)
  \/ \E c \in CallIds : RemoveTickerCall(c, "BTCUSD")
  \/ \E c \in CallIds : CloseResolves(c)

SpecMonitor == Init /\ [][NextMonitor]_vars

(***************************************************************************)
(* SpecCase: addTicker called with identifiers that differ only in letter  *)
(* case, as the handlers of AddTicker and POST /api/tickers pass them on.  *)
(***************************************************************************)
CaseTickers == {"BTCUSD", "btcusd"}

NextCase ==
  \/ \E c \in CallIds, t \in CaseTickers : AddTickerCall(c, t)
  \/ \E c \in CallIds, ok \in BOOLEAN : NewPageResolves(c, ok)
  \/ \E c \in CallIds, ok \in BOOLEAN : GotoResolves(c, ok)
  \/ \E c \in CallIds : WaitResolves(c)
  \/ \E c \in CallIds : InitialExtractPrice(c)
  \/ \E c \in CallIds : InitialExtractChange(c)
  \/ \E p \in PageIds : BoundedIntervalFires(p)
  \/ \E i \in 1 .. MaxCalls * MaxInFlight : TickExtractPrice(i)
  \/ \E i \in 1 .. MaxCalls * MaxInFlight : TickExtractChange(i)

SpecCase == Init /\ [][NextCase]_vars

(***************************************************************************)
(* The timed pipeline: queuePriceUpdate -> processBatchedUpdates ->        *)
(* notifyPriceUpdate -> the server's listener -> processBroadcastQueue ->  *)
(* broadcastToClients, and the /api/stream clients.  Time is Date.now() in *)
(* ms; a timer fires when now reaches its due time, and time does not pass *)
(* a timer that is due.                                                    *)
(***************************************************************************)
MaxSamples == 2      \* Samples the monitors forward in one behaviour
MaxBatchTime == 120  \* the clock of SpecBatch stops here
SubscribeBy == 0      \* the clients connect no later than this
MaxTime == 60200     \* the clock of SpecClients stops here

BROADCAST_INTERVAL == 50
CLIENT_TIMEOUT == 60000
KEEPALIVE_INTERVAL == 30000
TickStep == BATCH_DELAY \div 5

ClientIds == {"a", "b"}   \* Math.random().toString(36).substring(7)

\* a Monitor forwards a Sample: queuePriceUpdate(data) at the current time.
\* The n-th Sample of a behaviour has price 100 + n, so that a delivered Sample
\* tells which arrival it is.
MonitorForwards(t) ==
  /\ fired < MaxSamples
  /\ fired' = fired + 1
  /\ QueuePriceUpdate(PriceData(t, Dec(FALSE, 100 + fired + 1, 0), Zero, now),
                      [page |-> 0, prev |-> << >>, removeSeen |-> FALSE,
                       removeDone |-> FALSE])
  /\ UNCHANGED <<activeTickers, pages, intervals, inflight, calls, priceCallbacks,
                 serverVars, now, extractVars>>

\* a listener that arms its timer but queues nothing (used to test that C13
\* depends on the push of server.ts:150)
ListenerQueueDropping(q, updates) == q

\* server.ts:147-158 the server's listener, called with the updates of one
\* flush one after the other: the queue and the timer after them
ListenerQueue(q, updates) == q \o updates
ListenerTimer(timer, updates, t) ==
  IF updates # << >> /\ ~timer.armed THEN Timer(t + BROADCAST_INTERVAL) ELSE timer

\* server.ts:218-220 the listener of a streamPrices call, called with the
\* updates of one flush one after the other; threw records whether its calls
\* of this flush ended in an exception (observation)
UpdateListener(stream, updates, throws) ==
  [stream EXCEPT !.priceUpdates = @ \o updates, !.threw = throws]

\* a notification without the try/catch of server.ts:739-743: the first
\* exception leaves forEach and the loop of processBatchedUpdates, after the
\* server's listener and the throwing callbacks were called with the first
\* update (used to test that C39 depends on the try/catch)
NotifiedUntilThrow(cb, throwing, updates) ==
  IF throwing = {} THEN updates
  ELSE IF cb = "sse" \/ cb \in throwing THEN Take(updates, 1)
  ELSE << >>

\* server.ts:727-730, 737-745 the updates callback cb is called with in one
\* flush, when the callbacks in throwing throw on every call: the catch lets
\* forEach and the loop over the updates go on
Notified(cb, throwing, updates) == updates

\* server.ts:720-731, 737-745 the batch timer fires: processBatchedUpdates
\* notifies every callback of every queued update, in the queue's order
BatchTimerFires ==
  /\ batchUpdateTimer.armed /\ now = batchUpdateTimer.due
  /\ batchUpdateTimer' = NoTimer
  /\ updateQueue' = << >>
  /\ \E throwing \in SUBSET (priceCallbacks \ {"sse"}) :
       /\ IF "sse" \in priceCallbacks
          THEN /\ broadcastQueue' =
                    ListenerQueue(broadcastQueue, Notified("sse", throwing, updateQueue))
               /\ broadcastTimer' =
                    ListenerTimer(broadcastTimer,
                                  Notified("sse", throwing, updateQueue), now)
          ELSE UNCHANGED <<broadcastQueue, broadcastTimer>>
       /\ streams' = [s \in StreamIds |->
                        IF s \in priceCallbacks
                        THEN UpdateListener(streams[s],
                                            Notified(s, throwing, updateQueue),
                                            s \in throwing)
                        ELSE streams[s]]
  /\ UNCHANGED <<activeTickers, pages, intervals, inflight, calls, priceCallbacks,
                 forwarded, sseClients, conns, written, now, extractVars, fired>>

\* a queue reduced to the first update of each ticker (used to test that C5
\* depends on the Map of server.ts:136-139 being overwritten)
RECURSIVE FirstUpdates(_, _)
FirstUpdates(q, acc) ==
  IF q = << >> THEN acc
  ELSE FirstUpdates(Tail(q),
         IF \E i \in 1 .. Len(acc) : acc[i].ticker = Head(q).ticker
         THEN acc ELSE Append(acc, Head(q)))

\* server.ts:136-143 the latest update of each ticker, in the order in which
\* the tickers first appear in the queue
RECURSIVE LatestUpdates(_, _)
LatestUpdates(q, acc) ==
  IF q = << >> THEN acc ELSE LatestUpdates(Tail(q), QueueSet(acc, Head(q)))

\* server.ts:102 the stale test of broadcastToClients
IsStale(client, t) == t - client.lastActivity > CLIENT_TIMEOUT /\ ~client.isActive

\* a loop without the try/catch of server.ts:107-115: the first write that
\* throws ends it (used to test that C6 depends on the try/catch)
AttemptedUntilThrow(clients, failing, t) ==
  {i \in 1 .. Len(clients) :
     /\ ~IsStale(clients[i], t)
     /\ \A j \in 1 .. i - 1 : IsStale(clients[j], t) \/ clients[j].id \notin failing}

\* server.ts:100-116 the positions of sseClients to which a write is attempted,
\* when the writes to the clients in failing throw: the catch lets the loop go on
Attempted(clients, failing, t) ==
  {i \in 1 .. Len(clients) : ~IsStale(clients[i], t)}

\* server.ts:107-111 the positions whose write succeeded
Delivered(clients, failing, t) ==
  {i \in Attempted(clients, failing, t) : clients[i].id \notin failing}

\* a publish that forgets the clients whose write threw (used to test that C14
\* depends on the push of server.ts:114)
StaleByAgeOnly(clients, failing, t) ==
  {i \in 1 .. Len(clients) : IsStale(clients[i], t)}

\* server.ts:101-116 staleClients: the positions that failed the stale test or
\* whose write threw
StaleClients(clients, failing, t) ==
  {i \in 1 .. Len(clients) :
     \/ IsStale(clients[i], t)
     \/ i \in Attempted(clients, failing, t) /\ i \notin Delivered(clients, failing, t)}

\* a write to this connection may throw: its socket is gone
MayThrow(k) == conns[k].socket \in {"dead", "closed"}

BatchWrite(updates, ok) == [kind |-> "batch", at |-> now, updates |-> updates, ok |-> ok]

\* a socket that hands the latest write over first (used to test that C21
\* depends on the order of the writes)
RawWriteReordering(log, entry) == <<entry>> \o log

\* server.ts:108 reply.raw.write: the socket carries the writes in the order of
\* the calls
RawWrite(log, entry) == Append(log, entry)

\* server.ts:84-127 broadcastToClients(updates); failing: the clients whose
\* write throws.  Stale clients and clients whose write threw are deleted.
BroadcastToClients(updates, failing) ==
  IF Len(sseClients) = 0 \/ Len(updates) = 0
  THEN UNCHANGED <<sseClients, written>>
  ELSE LET tried == Attempted(sseClients, failing, now)
           done == Delivered(sseClients, failing, now)
           stale == StaleClients(sseClients, failing, now)
           after == [i \in 1 .. Len(sseClients) |->
                       IF i \in done
                       THEN [sseClients[i] EXCEPT !.lastActivity = now, !.isActive = TRUE]
                       ELSE sseClients[i]]
       IN /\ sseClients' = SelectSeq(after,
                 LAMBDA c : \A i \in stale : sseClients[i].id # c.id)
          /\ written' = [k \in ConnIds |->
                 IF \E i \in done : sseClients[i].reply = k
                 THEN RawWrite(written[k], BatchWrite(updates, TRUE))
                 ELSE IF \E i \in tried : sseClients[i].reply = k
                 THEN RawWrite(written[k], BatchWrite(updates, FALSE))
                 ELSE written[k]]

\* a publish that leaves the broadcast queue as it is (used to test that C31
\* depends on the splice of server.ts:134)
BroadcastTimerFiresKeeping ==
  /\ broadcastTimer.armed /\ now = broadcastTimer.due
  /\ broadcastTimer' = NoTimer
  /\ UNCHANGED broadcastQueue
  /\ IF broadcastQueue = << >>
     THEN UNCHANGED <<sseClients, written>>
     ELSE \E failing \in SUBSET {sseClients[i].id : i \in 1 .. Len(sseClients)} :
            /\ \A i \in 1 .. Len(sseClients) :
                 sseClients[i].id \in failing => MayThrow(sseClients[i].reply)
            /\ BroadcastToClients(LatestUpdates(broadcastQueue, << >>), failing)
  /\ UNCHANGED <<scraperVars, conns, streams, now, extractVars, fired>>

\* server.ts:130-144, 153-156 the broadcast timer fires: processBroadcastQueue,
\* then broadcastTimer = null
BroadcastTimerFires ==
  /\ broadcastTimer.armed /\ now = broadcastTimer.due
  /\ broadcastTimer' = NoTimer
  /\ broadcastQueue' = << >>
  /\ IF broadcastQueue = << >>
     THEN UNCHANGED <<sseClients, written>>
     ELSE \E failing \in SUBSET {sseClients[i].id : i \in 1 .. Len(sseClients)} :
            /\ \A i \in 1 .. Len(sseClients) :
                 sseClients[i].id \in failing => MayThrow(sseClients[i].reply)
            /\ BroadcastToClients(LatestUpdates(broadcastQueue, << >>), failing)
  /\ UNCHANGED <<scraperVars, conns, streams, now, extractVars, fired>>

\* Map.set / Map.delete on sseClients, a sequence of client records
ClientSet(clients, rec) ==
  IF \E i \in 1 .. Len(clients) : clients[i].id = rec.id
  THEN [i \in 1 .. Len(clients) |-> IF clients[i].id = rec.id THEN rec ELSE clients[i]]
  ELSE Append(clients, rec)
ClientDelete(clients, id) == SelectSeq(clients, LAMBDA c : c.id # id)
ClientHas(clients, id) == \E i \in 1 .. Len(clients) : clients[i].id = id

NextConn(k) ==
  conns[k].socket = "none" /\ \A j \in ConnIds : j < k => conns[j].socket # "none"

\* a stream request whose record starts inactive (used to test that C36
\* depends on the isActive: true of server.ts:315)
StreamRequestInactive(k, id) ==
  /\ NextConn(k)
  /\ sseClients' = ClientSet(sseClients,
       [id |-> id, reply |-> k, lastActivity |-> now, isActive |-> FALSE])
  /\ conns' = [conns EXCEPT ![k] =
       [socket |-> "open", id |-> id, keepAlive |-> Timer(now + KEEPALIVE_INTERVAL),
        events |-> {}, keepAlives |-> 0]]
  /\ UNCHANGED <<scraperVars, broadcastQueue, broadcastTimer, written, streams,
                 now, extractVars, fired>>

\* a stream request that is answered with the Sample forwarded last (used to
\* test that C35 depends on the handler writing no Sample, server.ts:302-319)
StreamRequestReplaying(k, id) ==
  /\ NextConn(k)
  /\ sseClients' = ClientSet(sseClients,
       [id |-> id, reply |-> k, lastActivity |-> now, isActive |-> TRUE])
  /\ conns' = [conns EXCEPT ![k] =
       [socket |-> "open", id |-> id, keepAlive |-> Timer(now + KEEPALIVE_INTERVAL),
        events |-> {}, keepAlives |-> 0]]
  /\ written' = [written EXCEPT ![k] =
       IF forwarded = << >> THEN @
       ELSE RawWrite(@, BatchWrite(<<forwarded[1].sample>>, TRUE))]
  /\ UNCHANGED <<scraperVars, broadcastQueue, broadcastTimer, streams, now,
                 extractVars, fired>>

\* server.ts:295-336 GET /api/stream: the client is registered under a random
\* id and its keep-alive interval starts
StreamRequest(k, id) ==
  /\ NextConn(k)
  /\ sseClients' = ClientSet(sseClients,
       [id |-> id, reply |-> k, lastActivity |-> now, isActive |-> TRUE])
  /\ conns' = [conns EXCEPT ![k] =
       [socket |-> "open", id |-> id, keepAlive |-> Timer(now + KEEPALIVE_INTERVAL),
        events |-> {}, keepAlives |-> 0]]
  /\ UNCHANGED <<scraperVars, broadcastQueue, broadcastTimer, written, streams,
                 now, extractVars, fired>>

\* the requests followed in SpecBatch and SpecClients: made by time SubscribeBy
Subscribe(k, id) ==
  /\ now <= SubscribeBy
  /\ StreamRequest(k, id)

\* server.ts:324-336 the keep-alive interval of connection k fires; keepAlives
\* counts the keep-alive writes made to the connection (observation)
KeepAliveFires(k, throws) ==
  /\ conns[k].keepAlive.armed /\ now = conns[k].keepAlive.due
  /\ throws => MayThrow(k)
  /\ IF ClientHas(sseClients, conns[k].id) /\ ~throws
     THEN /\ conns' = [conns EXCEPT ![k].keepAlive = Timer(now + KEEPALIVE_INTERVAL),
                                    ![k].keepAlives = @ + 1]
          /\ UNCHANGED sseClients
     ELSE IF ClientHas(sseClients, conns[k].id)
     THEN /\ conns' = [conns EXCEPT ![k].keepAlive = NoTimer, ![k].keepAlives = @ + 1]
          /\ sseClients' = ClientDelete(sseClients, conns[k].id)
     ELSE /\ conns' = [conns EXCEPT ![k].keepAlive = NoTimer]
          /\ UNCHANGED sseClients
  /\ UNCHANGED <<scraperVars, broadcastQueue, broadcastTimer, written, streams,
                 now, extractVars, fired>>

\* the transport of connection k fails without any event reaching the server
SocketDies(k) ==
  /\ conns[k].socket = "open"
  /\ conns' = [conns EXCEPT ![k].socket = "dead"]
  /\ UNCHANGED <<scraperVars, broadcastQueue, broadcastTimer, sseClients, written,
                 streams, now, extractVars, fired>>

\* server.ts:339-349 the socket's close / error handler (each fires at most once)
SocketEvent(k, ev) ==
  /\ conns[k].socket # "none"
  /\ ev \notin conns[k].events
  /\ conns' = [conns EXCEPT ![k].socket = "closed", ![k].events = @ \cup {ev},
                            ![k].keepAlive = NoTimer]
  /\ sseClients' = ClientDelete(sseClients, conns[k].id)
  /\ UNCHANGED <<scraperVars, broadcastQueue, broadcastTimer, written, streams,
                 now, extractVars, fired>>

\* server.ts:211-222 streamPrices is called: the call's listener is added to
\* the scraper's callbacks, its buffer is empty
StreamPricesCall(s) ==
  /\ streams[s].status = "none"
  /\ priceCallbacks' = priceCallbacks \cup {s}
  /\ streams' = [streams EXCEPT ![s] =
       [status |-> "open", priceUpdates |-> << >>, lastSentIndex |-> 0,
        threw |-> FALSE]]
  /\ UNCHANGED <<activeTickers, pages, intervals, inflight, calls, updateQueue,
                 batchUpdateTimer, forwarded, broadcastQueue, broadcastTimer,
                 sseClients, conns, written, now, extractVars, fired>>

\* server.ts:228-239 the loop of a connected stream yields the next buffered
\* update
StreamYields(s) ==
  /\ streams[s].status = "open"
  /\ streams[s].lastSentIndex < Len(streams[s].priceUpdates)
  /\ streams' = [streams EXCEPT ![s].lastSentIndex = @ + 1]
  /\ UNCHANGED <<scraperVars, broadcastQueue, broadcastTimer, sseClients, conns,
                 written, now, extractVars, fired>>

\* server.ts:228, 244-248 the client of a stream disconnects: the loop ends and
\* the finally block runs, which logs and removes nothing
StreamEnds(s) ==
  /\ streams[s].status = "open"
  /\ streams' = [streams EXCEPT ![s].status = "ended"]
  /\ UNCHANGED <<scraperVars, broadcastQueue, broadcastTimer, sseClients, conns,
                 written, now, extractVars, fired>>

\* the due times of the armed timers
DueTimes ==
  {batchUpdateTimer.due : x \in {1} \cap {IF batchUpdateTimer.armed THEN 1 ELSE 0}}
  \cup {broadcastTimer.due : x \in {1} \cap {IF broadcastTimer.armed THEN 1 ELSE 0}}
  \cup {conns[k].keepAlive.due : k \in {j \in ConnIds : conns[j].keepAlive.armed}}

\* time passes by one step, never past a due time (the batching timers are
\* followed step by step, up to MaxBatchTime)
Tick ==
  /\ now + TickStep <= MaxBatchTime
  /\ \A d \in DueTimes : now + TickStep <= d
  /\ now' = now + TickStep
  /\ UNCHANGED <<scraperVars, serverVars, extractVars, fired>>

\* time passes to the next due time, or by one keep-alive period when no timer
\* is armed (the clients are followed over minutes, up to MaxTime)
Advance ==
  /\ \E t \in (IF DueTimes = {} THEN {now + KEEPALIVE_INTERVAL} ELSE DueTimes) :
       /\ t > now /\ t <= MaxTime
       /\ \A d \in DueTimes : t <= d
       /\ now' = t
  /\ UNCHANGED <<scraperVars, serverVars, extractVars, fired>>

NextBatch ==
  \/ \E t \in Tickers : MonitorForwards(t)
  \/ BatchTimerFires
  \/ BroadcastTimerFires
  \/ \E k \in ConnIds, id \in ClientIds : Subscribe(k, id)
  \/ Tick

SpecBatch == Init /\ [][NextBatch]_vars

NextClients ==
  \/ \E t \in Tickers : MonitorForwards(t)
  \/ BatchTimerFires
  \/ BroadcastTimerFires
  \/ \E k \in ConnIds, id \in ClientIds : Subscribe(k, id)
  \/ \E k \in ConnIds, throws \in BOOLEAN : KeepAliveFires(k, throws)
  \/ \E k \in ConnIds : SocketDies(k)
  \/ \E k \in ConnIds, ev \in {"close", "error"} : SocketEvent(k, ev)
  \/ Advance

SpecClients == Init /\ [][NextClients]_vars

(***************************************************************************)
(* SpecReconnect: clients that connect at any time, among them after       *)
(* another client was evicted by a publish; sockets fail silently.         *)
(***************************************************************************)
NextReconnect ==
  \/ \E t \in Tickers : MonitorForwards(t)
  \/ BatchTimerFires
  \/ BroadcastTimerFires
  \/ \E k \in ConnIds, id \in ClientIds : StreamRequest(k, id)
  \/ \E k \in ConnIds, throws \in BOOLEAN : KeepAliveFires(k, throws)
  \/ \E k \in ConnIds : SocketDies(k)
  \/ Advance

SpecReconnect == Init /\ [][NextReconnect]_vars

(***************************************************************************)
(* SpecStreams: the streamPrices calls of the ConnectRPC service next to   *)
(* the batching pipeline.                                                  *)
(***************************************************************************)
NextStreams ==
  \/ \E t \in Tickers : MonitorForwards(t)
  \/ BatchTimerFires
  \/ BroadcastTimerFires
  \/ \E s \in StreamIds : StreamPricesCall(s)
  \/ \E s \in StreamIds : StreamYields(s)
  \/ \E s \in StreamIds : StreamEnds(s)
  \/ Advance

SpecStreams == Init /\ [][NextStreams]_vars

(***************************************************************************)
(* SpecSteady: the batching pipeline under a stream of Samples that need   *)
(* not end.  Time is measured from the present: now stays 0, the due time  *)
(* of a timer is the time left, and a recorded time is 0 or earlier.  The  *)
(* timers that are due fire and time passes, under weak fairness.          *)
(***************************************************************************)
HeldTicker == "BTCUSD"     \* its Monitor forwards one Sample
StreamTicker == "ETHUSD"   \* forwarded again and again by the other Monitors

\* a recorded time one clock step later: now, or earlier
Older(t) == IF t < 0 THEN t ELSE t - TickStep
Sooner(timer) == IF timer.armed THEN Timer(timer.due - TickStep) ELSE timer
AgeSample(d) == [d EXCEPT !.timestamp = Older(@)]
AgeQueue(q) == [i \in 1 .. Len(q) |-> AgeSample(q[i])]

\* Date.now() advances by one clock step while no flush timer is due; the
\* keep-alive of a connection, which leaves a healthy client as it is, is not
\* followed
TimePasses ==
  /\ batchUpdateTimer.armed => batchUpdateTimer.due >= TickStep
  /\ broadcastTimer.armed => broadcastTimer.due >= TickStep
  /\ batchUpdateTimer' = Sooner(batchUpdateTimer)
  /\ broadcastTimer' = Sooner(broadcastTimer)
  /\ updateQueue' = AgeQueue(updateQueue)
  /\ broadcastQueue' = AgeQueue(broadcastQueue)
  /\ forwarded' = [i \in 1 .. Len(forwarded) |->
                     [forwarded[i] EXCEPT !.sample = AgeSample(@)]]
  /\ sseClients' = [i \in 1 .. Len(sseClients) |->
                      [sseClients[i] EXCEPT !.lastActivity = Older(@)]]
  /\ written' = [k \in ConnIds |->
                   [i \in 1 .. Len(written[k]) |->
                      [written[k][i] EXCEPT !.at = Older(@), !.updates = AgeQueue(@)]]]
  /\ UNCHANGED <<activeTickers, pages, intervals, inflight, calls, priceCallbacks,
                 conns, streams, now, extractVars, fired>>

\* a Monitor forwards a Sample: queuePriceUpdate(data).  HeldTicker is
\* forwarded once; the stream is followed until a batch has been written.
SteadyForwards(t) ==
  /\ \A k \in ConnIds : written[k] = << >>
  /\ t = HeldTicker => fired = 0
  /\ fired' = IF t = HeldTicker THEN 1 ELSE fired
  /\ QueuePriceUpdate(PriceData(t, Dec(FALSE, 101, 0), Zero, now),
                      [page |-> 0, prev |-> << >>, removeSeen |-> FALSE,
                       removeDone |-> FALSE])
  /\ UNCHANGED <<activeTickers, pages, intervals, inflight, calls, priceCallbacks,
                 serverVars, now, extractVars>>

NextSteady ==
  \/ Subscribe(1, "a")
  \/ SteadyForwards(HeldTicker)
  \/ SteadyForwards(StreamTicker)
  \/ BatchTimerFires
  \/ BroadcastTimerFires
  \/ TimePasses

SteadyFairness ==
  /\ WF_vars(BatchTimerFires)
  /\ WF_vars(BroadcastTimerFires)
  /\ WF_vars(TimePasses)

SpecSteady == Init /\ [][NextSteady]_vars /\ SteadyFairness

(***************************************************************************)
(* SpecHang: two tickers and one client.  The page calls of HungTicker's   *)
(* addTicker are under no fairness condition, and its initial extraction,  *)
(* once started, never returns.  The steps of the other ticker, the flush  *)
(* timers and the clock are weakly fair: a promise that resolves is        *)
(* resumed and a timer that is due fires.                                  *)
(***************************************************************************)
MaxHangFires == 2     \* firings of monitoring intervals in one behaviour

HungTicker == "BTCUSD"
HealthyTicker == "ETHUSD"
HungCall == 1
HealthyCall == 2

HangIntervalFires(p) ==
  /\ fired < MaxHangFires
  /\ InFlightOf(p) < MaxInFlight
  /\ IntervalFires(p)

\* the extraction steps of the callbacks of the healthy ticker's timer
HealthyTickPrice(i) ==
  /\ i \in 1 .. Len(inflight) /\ inflight[i].ticker = HealthyTicker
  /\ TickExtractPrice(i)
HealthyTickChange(i) ==
  /\ i \in 1 .. Len(inflight) /\ inflight[i].ticker = HealthyTicker
  /\ TickExtractChange(i)

\* time passes to the flush timer that is due next
FlushAdvance ==
  /\ batchUpdateTimer.armed \/ broadcastTimer.armed
  /\ Advance

HangCalls == {HungCall, HealthyCall}

NextHang ==
  \/ AddTickerCall(HungCall, HungTicker)
  \/ AddTickerCall(HealthyCall, HealthyTicker)
  \/ \E c \in HangCalls : NewPageResolves(c, TRUE)
  \/ \E c \in HangCalls : GotoResolves(c, TRUE)
  \/ \E c \in HangCalls : WaitResolves(c)
  \/ InitialExtractPrice(HealthyCall)
  \/ InitialExtractChange(HealthyCall)
  \/ \E p \in HangCalls : HangIntervalFires(p)
  \/ \E i \in 1 .. MaxHangFires : HealthyTickPrice(i)
  \/ \E i \in 1 .. MaxHangFires : HealthyTickChange(i)
  \/ Subscribe(1, "a")
  \/ BatchTimerFires
  \/ BroadcastTimerFires
  \/ FlushAdvance

\* the steps of the healthy ticker, of the flush timers and of the clock
HealthyProgress ==
  \/ NewPageResolves(HealthyCall, TRUE)
  \/ GotoResolves(HealthyCall, TRUE)
  \/ WaitResolves(HealthyCall)
  \/ InitialExtractPrice(HealthyCall)
  \/ InitialExtractChange(HealthyCall)
  \/ HangIntervalFires(HealthyCall)
  \/ \E i \in 1 .. MaxHangFires : HealthyTickPrice(i)
  \/ \E i \in 1 .. MaxHangFires : HealthyTickChange(i)
  \/ BatchTimerFires
  \/ BroadcastTimerFires
  \/ FlushAdvance

\* every step of the model moves a call, a callback, a timer or the clock
\* forward, so that one condition on their disjunction makes each of them
\* happen once it stays possible
HangFairness == WF_vars(HealthyProgress)

SpecHang == Init /\ [][NextHang]_vars /\ HangFairness

(***************************************************************************)
(* SpecRemove: one ticker added and removed while its Samples pass the     *)
(* batching pipeline to a client.                                          *)
(***************************************************************************)
NextRemove ==
  \/ \E c \in CallIds : AddTickerCall(c, "BTCUSD")
  \/ \E c \in CallIds : NewPageResolves(c, TRUE)
  \/ \E c \in CallIds : GotoResolves(c, TRUE)
  \/ \E c \in CallIds : WaitResolves(c)
  \/ \E c \in CallIds : InitialExtractPrice(c)
  \/ \E c \in CallIds : InitialExtractChange(c)
  \/ \E c \in CallIds : RemoveTickerCall(c, "BTCUSD")
  \/ \E c \in CallIds : CloseResolves(c)
  \/ Subscribe(1, "a")
  \/ BatchTimerFires
  \/ BroadcastTimerFires
  \/ FlushAdvance

SpecRemove == Init /\ [][NextRemove]_vars

(***************************************************************************)
(* Claims about the registry and the monitors (specification Spec)         *)
(***************************************************************************)
\* a Monitor of ticker t that is active: an open page with its interval running
ActiveMonitors(t) ==
  {p \in intervals : pages[p].ticker = t /\ pages[p].status = "open"}

\* C1: in every reachable state each ticker has at most one active Monitor
\* (an open page handle with a running sampling timer), also when addTicker
\* calls for the same ticker overlap and when add and remove interleave.
C1_AtMostOneMonitor == \A t \in Tickers : Cardinality(ActiveMonitors(t)) <= 1

\* C2: a Sample is never forwarded by a cycle whose extraction yielded the same
\* (value, changePercent) pair as the previous successful cycle of the same
\* Monitor, the extraction made when monitoring starts counting as a cycle.
C2_NoChangeSuppressed ==
  \A i \in 1 .. Len(forwarded) : forwarded[i].prev # <<Pair(forwarded[i].sample)>>

\* C10: the result of an extraction for t that was in flight when
\* removeTicker(t) was called is not forwarded to the Batcher (stated here in
\* the reading kindest to the code: not forwarded once that removeTicker call
\* has returned).
C10_RemovedNotForwarded ==
  \A i \in 1 .. Len(forwarded) : ~forwarded[i].removeDone

\* call c starts in this step, as operation op on ticker t
Starts(c, op, t) ==
  calls[c].pc = "idle" /\ calls'[c].op = op /\ calls'[c].ticker = t

\* the only call made for ticker t so far is an addTicker(t) that has returned
\* successfully
AddedOnce(t) ==
  \E d \in CallIds :
    /\ calls[d].op = "add" /\ calls[d].ticker = t /\ calls[d].pc = "ok"
    /\ \A e \in CallIds \ {d} : calls[e].ticker # t

\* C11: addTicker(t) for a ticker in the registry returns success at once and
\* changes neither the registry (keys and TickerStates), nor the pages, nor the
\* timers; an addTicker(t) called right after the first addTicker(t) has
\* returned is such a call, so that both calls are accepted and one Monitor is
\* active.
C11_AddIdempotent ==
  [][\A c \in CallIds, t \in Tickers :
       Starts(c, "add", t) =>
         /\ t \in DOMAIN activeTickers =>
              /\ calls'[c].pc = "ok"
              /\ UNCHANGED <<activeTickers, pages, intervals, inflight>>
         /\ AddedOnce(t) =>
              /\ calls'[c].pc = "ok"
              /\ UNCHANGED <<activeTickers, pages, intervals, inflight>>
              /\ Cardinality(ActiveMonitors(t)) = 1]_vars

\* C11 case: two addTicker calls for one ticker, one after the other, have both
\* returned success; the second opened no page and one Monitor is active
C11_Witness ==
  \E t \in Tickers :
    /\ calls[1].op = "add" /\ calls[1].ticker = t /\ calls[1].pc = "ok" /\ calls[1].page = 1
    /\ calls[2].op = "add" /\ calls[2].ticker = t /\ calls[2].pc = "ok" /\ calls[2].page = 0
    /\ pages[2].status = "unused"
    /\ Cardinality(ActiveMonitors(t)) = 1

\* C12: an addTicker whose page creation or navigation throws ends in failure
\* (the handler answers success = false), and neither while it awaits them nor
\* after it has failed is its page in the registry or sampled by a timer; when
\* no other call concerns its ticker, the ticker is in no listing and has no
\* Monitor.
C12_FailedAddInvisible ==
  \A c \in CallIds :
    (calls[c].op = "add" /\ calls[c].pc \in {"newPage", "goto", "failed"}) =>
      /\ c \notin intervals
      /\ \A t \in DOMAIN activeTickers : activeTickers[t].page # c
      /\ (\A e \in CallIds \ {c} : calls[e].ticker # calls[c].ticker) =>
           /\ calls[c].ticker \notin DOMAIN activeTickers
           /\ ActiveMonitors(calls[c].ticker) = {}

\* C12 case: the navigation of an addTicker has thrown, and another has failed
\* to create its page
C12_Witness ==
  \E c, d \in CallIds :
    /\ calls[c].op = "add" /\ calls[c].pc = "failed" /\ calls[c].page = c
    /\ calls[d].op = "add" /\ calls[d].pc = "failed" /\ calls[d].page = 0
    /\ calls[c].ticker # calls[d].ticker

\* C15: whatever the order of the registry's keys, getActiveTickers returns
\* every registered ticker once and nothing else, in ascending order of the
\* strings (the result is computed from the keys alone and assigns nothing).
C15_SortedListing ==
  \A ks \in KeyOrders :
    LET r == getActiveTickers(ks)
    IN /\ Len(r) = Cardinality(DOMAIN activeTickers)
       /\ {r[i] : i \in 1 .. Len(r)} = DOMAIN activeTickers
       /\ \A i, j \in 1 .. Len(r) : i < j => StringLess(r[i], r[j])

\* C15 case: after an add of each ticker the registry holds two keys, in
\* either order
C15_Witness ==
  /\ DOMAIN activeTickers = Tickers
  /\ <<"ETHUSD", "BTCUSD">> \in KeyOrders
  /\ getActiveTickers(<<"ETHUSD", "BTCUSD">>) = <<"BTCUSD", "ETHUSD">>

\* C16: removeTicker(t) for a ticker that is not in the registry returns
\* success at once and changes neither the registry nor any page, timer or
\* queued update; and when a removeTicker(t) returns t is not in the registry,
\* so that a second removeTicker(t) right after it is such a no-op.
C16_RemoveAbsentNoOp ==
  [][\A c \in CallIds, t \in Tickers :
       /\ (Starts(c, "remove", t) /\ t \notin DOMAIN activeTickers) =>
            /\ calls'[c].pc = "ok"
            /\ UNCHANGED <<activeTickers, pages, intervals, updateQueue,
                           batchUpdateTimer>>
       /\ (calls[c].op = "remove" /\ calls[c].ticker = t /\ calls[c].pc = "close"
           /\ calls'[c].pc = "ok") =>
            t \notin DOMAIN activeTickers']_vars

\* C16 case: a ticker was added, removed, and removed again; the second
\* removal found nothing
C16_Witness ==
  \E t \in Tickers :
    /\ calls[1].op = "add" /\ calls[1].ticker = t /\ calls[1].pc = "ok"
    /\ calls[2].op = "remove" /\ calls[2].ticker = t /\ calls[2].pc = "ok" /\ calls[2].page = 1
    /\ calls[3].op = "remove" /\ calls[3].ticker = t /\ calls[3].pc = "ok" /\ calls[3].page = 0
    /\ pages[1].status = "closed"
    /\ t \notin DOMAIN activeTickers

\* C24: once a removeTicker call that found its ticker has returned, the page
\* it closed is closed and that page's sampling timer is not running, also when
\* the call ran while the addTicker of the page was suspended in its initial
\* extraction.
C24_StoppedForGood ==
  \A c \in CallIds :
    (calls[c].op = "remove" /\ calls[c].pc = "ok" /\ calls[c].page # 0) =>
      /\ pages[calls[c].page].status = "closed"
      /\ calls[c].page \notin intervals

\* C25: a step that forwards a Sample of a registered ticker leaves the
\* ticker's TickerState holding the Sample's price, changePercent and
\* timestamp, the first Sample of a Monitor included.
C25_StateFollowsForward ==
  [][forwarded' # forwarded =>
       LET sample == forwarded'[1].sample
       IN sample.ticker \in DOMAIN activeTickers' =>
            /\ activeTickers'[sample.ticker].lastPrice = sample.price
            /\ activeTickers'[sample.ticker].lastChange = sample.changePercent
            /\ activeTickers'[sample.ticker].lastUpdate = sample.timestamp]_vars

AddInProgress ==
  \E c \in CallIds :
    /\ calls[c].op = "add"
    /\ calls[c].pc \in {"newPage", "goto", "wait", "extract", "extractChange"}

\* C32: when no addTicker call is in progress, every open page is the page of
\* the registry entry of exactly one registered ticker.
C32_NoPageLeak ==
  ~AddInProgress =>
    \A p \in PageIds :
      pages[p].status = "open" =>
        Cardinality({t \in DOMAIN activeTickers : activeTickers[t].page = p}) = 1

(***************************************************************************)
(* Claims about batching (specification SpecBatch)                         *)
(***************************************************************************)
\* the Samples in flight or delivered
Samples(q) == {q[i] : i \in 1 .. Len(q)}
Known ==
  Samples(updateQueue) \cup Samples(broadcastQueue)
  \cup UNION {UNION {Samples(written[k][i].updates) : i \in 1 .. Len(written[k])} :
              k \in ConnIds}

\* conn k is the registered client of its id
Registered(k) ==
  \E i \in 1 .. Len(sseClients) : sseClients[i].reply = k

\* the scenario of C3: BTCUSD at t = 0, ETHUSD at t = 10, nothing else
C3First == PriceData("BTCUSD", Dec(FALSE, 101, 0), Zero, 0)
C3Second == PriceData("ETHUSD", Dec(FALSE, 102, 0), Zero, TickStep)
C3Scenario ==
  /\ fired = 2
  /\ forwarded = <<[sample |-> C3Second, page |-> 0, prev |-> << >>,
                    removeSeen |-> FALSE, removeDone |-> FALSE]>>
  /\ C3First \in Known

\* C3: with Samples for two tickers at t = 0 and t = 10 and no others, a
\* registered subscriber is written exactly one batch, holding both Samples,
\* about one window (50 ms, here up to one clock step more) after the first
\* Sample: never two batches, and never later.
C3_OneBatchAtWindow ==
  \A k \in ConnIds :
    C3Scenario /\ Registered(k) =>
      /\ Len(written[k]) <= 1
      /\ \A i \in 1 .. Len(written[k]) :
           /\ Samples(written[k][i].updates) = {C3First, C3Second}
           /\ written[k][i].at <= BATCH_DELAY + TickStep
      /\ now > BATCH_DELAY + TickStep => Len(written[k]) = 1

\* C4: a Sample accepted by queuePriceUpdate leaves the queue within one
\* window of its arrival (a consequence of: within one window of the arrival of
\* the first Sample pending with it), whatever arrives meanwhile.
C4_FlushWithinWindow ==
  \A i \in 1 .. Len(updateQueue) : now - updateQueue[i].timestamp <= BATCH_DELAY

OneSamplePerTicker(q) ==
  \A i, j \in 1 .. Len(q) : q[i].ticker = q[j].ticker => i = j

\* the Sample of q accepted last for ticker t (the n-th accepted Sample has
\* price 100 + n)
IsLatestOf(s, q) ==
  /\ s \in Samples(q)
  /\ \A i \in 1 .. Len(q) :
       q[i].ticker = s.ticker => q[i].price.m <= s.price.m

\* the three steps a Sample takes: accepted, flushed by the scraper, published
C5Accept ==
  fired' = fired + 1 =>
    /\ OneSamplePerTicker(updateQueue')
    /\ forwarded'[1].sample \in Samples(updateQueue')
    /\ \A s \in Samples(updateQueue) :
         s.ticker # forwarded'[1].sample.ticker => s \in Samples(updateQueue')
C5Flush ==
  (updateQueue # << >> /\ updateQueue' = << >>) =>
    broadcastQueue' = broadcastQueue \o updateQueue
C5Publish ==
  \A k \in ConnIds :
    written'[k] # written[k] =>
      LET batch == written'[k][Len(written'[k])].updates
      IN /\ OneSamplePerTicker(batch)
         /\ \A s \in Samples(batch) : IsLatestOf(s, broadcastQueue)
         /\ \A s \in Samples(broadcastQueue) :
              \E b \in Samples(batch) : b.ticker = s.ticker

\* C5: every batch written to a subscriber holds at most one Sample per ticker,
\* and for each ticker the one accepted last among those accepted since the
\* previous flush: an accepted Sample replaces the queued one of its ticker, the
\* scraper's flush hands the queue over unchanged, and the publish keeps the
\* last Sample of each ticker.
C5_LatestWins == [][C5Accept /\ C5Flush /\ C5Publish]_vars

\* C5 case: two Samples of one ticker were accepted, and the one batch written
\* to a client registered throughout holds only the second
C5_Witness ==
  \E k \in ConnIds :
    /\ fired = 2 /\ Registered(k)
    /\ updateQueue = << >> /\ broadcastQueue = << >>
    /\ Len(written[k]) = 1
    /\ Len(written[k][1].updates) = 1
    /\ written[k][1].updates[1] = forwarded[1].sample
    /\ forwarded[1].sample.price = Dec(FALSE, 102, 0)

\* C13: no batch without Samples is written to a client, and a flush timer runs
\* only while its queue holds a Sample: without a new Sample no timer fires and
\* nothing is emitted.
C13_NoEmptyBatch ==
  /\ \A k \in ConnIds : \A i \in 1 .. Len(written[k]) : written[k][i].updates # << >>
  /\ batchUpdateTimer.armed => updateQueue # << >>
  /\ broadcastTimer.armed => broadcastQueue # << >>

\* C13 case: a batch has been written, both queues are empty again and time
\* has passed since without a timer running
C13_Witness ==
  \E k \in ConnIds :
    /\ Len(written[k]) = 1 /\ written[k][1].at < now
    /\ updateQueue = << >> /\ broadcastQueue = << >>
    /\ ~batchUpdateTimer.armed /\ ~broadcastTimer.armed

(***************************************************************************)
(* Claims about the clients (specification SpecClients)                    *)
(***************************************************************************)
PublishStep == broadcastQueue # << >> /\ broadcastQueue' = << >>

\* C6: in one publish, every registered client is written the batch or has its
\* own write throw: a write that throws for one client does not keep the batch
\* from any other, wherever the two stand in the client map.
C6_Isolation ==
  [][PublishStep =>
       \A i \in 1 .. Len(sseClients) :
         LET k == sseClients[i].reply
         IN /\ Len(written'[k]) = Len(written[k]) + 1
            /\ written'[k][Len(written'[k])].updates = LatestUpdates(broadcastQueue, << >>)
            /\ written'[k][Len(written'[k])].ok = ClientHas(sseClients', sseClients[i].id)]_vars

\* C6 case: in the publish just made the write to the first client of the map
\* threw and the second client was written the same batch
C6_Witness ==
  /\ Len(written[1]) > 0 /\ Len(written[2]) > 0
  /\ conns[1].id # conns[2].id
  /\ LET a == written[1][Len(written[1])]
         b == written[2][Len(written[2])]
     IN /\ ~a.ok /\ b.ok
        /\ a.at = now /\ b.at = now /\ a.updates = b.updates
  /\ Registered(2) /\ ~Registered(1)

\* C14: a client whose write threw in a publish is not in sseClients when the
\* publish returns, and nothing is written to its connection afterwards: a
\* failed write is the last entry of its connection, which is not registered.
C14_FailedClientGone ==
  \A k \in ConnIds : \A i \in 1 .. Len(written[k]) :
    ~written[k][i].ok => i = Len(written[k]) /\ ~Registered(k)

\* C14 case: the write to one client threw in a publish, and a later publish
\* has written to another client
C14_Witness ==
  \E k, j \in ConnIds :
    /\ written[k] # << >> /\ ~written[k][Len(written[k])].ok
    /\ written[j] # << >> /\ written[j][Len(written[j])].ok
    /\ written[j][Len(written[j])].at > written[k][Len(written[k])].at

\* the record under which connection k is registered is not stale at time t
Fresh(k, t) ==
  \E i \in 1 .. Len(sseClients) : sseClients[i].reply = k /\ ~IsStale(sseClients[i], t)

C21Ordered ==
  \A k \in ConnIds : \A i, j \in 1 .. Len(written[k]) :
    i < j => written[k][i].at < written[k][j].at
C21Step ==
  \A k \in ConnIds :
    IF PublishStep /\ Fresh(k, now)
    THEN \E ok \in BOOLEAN :
           written'[k] = Append(written[k],
                           BatchWrite(LatestUpdates(broadcastQueue, << >>), ok))
    ELSE written'[k] = written[k]

\* C21: the batches written to a connection are, in order, the batches of the
\* publishes made while it was registered: every publish adds its batch at the
\* end of what was written to each registered connection, no other step writes
\* a batch, and the batches of a connection were published one after the other.
C21_InFlushOrder == [] C21Ordered /\ [][C21Step]_vars

\* C21 case: two publishes have written to a connection, the earlier batch
\* first
C21_Witness ==
  \E k \in ConnIds :
    /\ Len(written[k]) = 2 /\ Registered(k)
    /\ written[k][1].ok /\ written[k][2].ok
    /\ written[k][1].updates[1].price = Dec(FALSE, 101, 0)
    /\ written[k][2].updates[1].price = Dec(FALSE, 102, 0)

C31NoDouble ==
  \A k \in ConnIds : \A i, j \in 1 .. Len(written[k]) :
    i # j => Samples(written[k][i].updates) \cap Samples(written[k][j].updates) = {}
C31Step ==
  /\ (batchUpdateTimer.armed /\ ~batchUpdateTimer'.armed) => updateQueue' = << >>
  /\ (broadcastTimer.armed /\ ~broadcastTimer'.armed) => broadcastQueue' = << >>

C36Active == \A i \in 1 .. Len(sseClients) : sseClients[i].isActive
C36Step ==
  PublishStep =>
    \A i \in 1 .. Len(sseClients) :
      /\ ~IsStale(sseClients[i], now)
      /\ ~ClientHas(sseClients', sseClients[i].id) =>
           LET log == written'[sseClients[i].reply]
           IN Len(log) = Len(written[sseClients[i].reply]) + 1 /\ ~log[Len(log)].ok

\* C36: every record of sseClients has isActive = TRUE in every reachable
\* state, so no client fails the stale test of a publish: a client that a
\* publish removes is one whose write was attempted and threw.
C36_AlwaysActive == [] C36Active /\ [][C36Step]_vars

\* C36 case: a publish made more than CLIENT_TIMEOUT after a client's last
\* activity has written to the client and kept it
C36_Witness ==
  \E k \in ConnIds :
    /\ Registered(k) /\ conns[k].socket = "open"
    /\ Len(written[k]) = 1 /\ written[k][1].ok
    /\ written[k][1].at > CLIENT_TIMEOUT

\* the record of connection k at position i is older than the timeout
Aged(k) ==
  \E i \in 1 .. Len(sseClients) :
    sseClients[i].reply = k /\ now - sseClients[i].lastActivity > CLIENT_TIMEOUT

\* C37: a connection leaves sseClients only in a step in which a handler of its
\* socket runs, a write of a batch or of a keep-alive to it throws, or with a
\* lastActivity older than CLIENT_TIMEOUT; a registered connection whose socket
\* stays open stays registered.
C37_HealthyStays ==
  [][\A k \in ConnIds :
       (Registered(k) /\ ~Registered(k)') =>
         /\ conns'[k].socket # "open"
         /\ \/ conns'[k].events # conns[k].events
            \/ Len(written'[k]) > Len(written[k]) /\ ~written'[k][Len(written'[k])].ok
            \/ conns'[k].keepAlives > conns[k].keepAlives /\ ~conns'[k].keepAlive.armed
            \/ Aged(k)]_vars

\* C38: a subscription adds a record to sseClients and replaces none, and a
\* handler of one connection's socket removes no record of another connection.
C38_FreshIds ==
  [][\A k \in ConnIds :
       /\ (conns[k].socket = "none" /\ conns'[k].socket # "none") =>
            /\ Len(sseClients') = Len(sseClients) + 1
            /\ \A j \in ConnIds : Registered(j) => Registered(j)'
       /\ conns'[k].events # conns[k].events =>
            \A j \in ConnIds \ {k} : Registered(j) => Registered(j)']_vars

\* the time at which connection k subscribed, while its first keep-alive is
\* pending
Since(k) == conns[k].keepAlive.due - KEEPALIVE_INTERVAL
SinceKnown(k) == conns[k].keepAlive.armed /\ conns[k].keepAlives = 0

C35Step ==
  /\ \A k \in ConnIds :
       written'[k] # written[k] =>
         /\ PublishStep /\ Registered(k)
         /\ \E ok \in BOOLEAN :
              written'[k] = Append(written[k],
                              BatchWrite(LatestUpdates(broadcastQueue, << >>), ok))
  /\ (PublishStep /\ sseClients = << >>) => written' = written
  /\ Samples(broadcastQueue') \subseteq Samples(broadcastQueue) \cup Samples(updateQueue)
  /\ Samples(updateQueue') \subseteq
       Samples(updateQueue) \cup {forwarded'[i].sample : i \in 1 .. Len(forwarded')}
  /\ fired' = fired => Samples(updateQueue') \subseteq Samples(updateQueue)

Removed(k) ==
  /\ conns[k].socket # "none"
  /\ \/ conns[k].events # {}
     \/ written[k] # << >> /\ ~written[k][Len(written[k])].ok
     \/ ~conns[k].keepAlive.armed

\* C22: nothing is written to a connection that has been removed from the
\* client map by its socket's close or error handler or by a failed write:
\* neither a batch nor a keep-alive.
C22_SilentAfterRemoval ==
  [][\A k \in ConnIds :
       Removed(k) =>
         /\ written'[k] = written[k]
         /\ conns'[k].keepAlives = conns[k].keepAlives]_vars

\* C7: the liveness check of a publish removes every client whose last
\* successful delivery is more than CLIENT_TIMEOUT old.
C7_StaleEvicted ==
  [][PublishStep =>
       \A i \in 1 .. Len(sseClients) :
         now - sseClients[i].lastActivity > CLIENT_TIMEOUT =>
           ~ClientHas(sseClients', sseClients[i].id)]_vars

(***************************************************************************)
(* Claims about the extractor (specification SpecExtract)                  *)
(***************************************************************************)
\* C8: every Sample the Extractor returns has a value, as emitted after
\* rounding, strictly greater than 0; a page with no resolvable price yields
\* the failure (null), never a Sample with value 0.
C8_SamplePositive == xResult.kind = "sample" => Gt0(xResult.price)

\* the four strategies of the claim, each applied to the page on its own
Strategy1(pg) == SelectorPrice(pg)
Strategy2(pg) == IF pg.tv.present THEN GlobalObject(pg).price ELSE Zero
Strategy3(pg) == TextScan(pg).price
Strategy4(pg) == TitlePrice(pg)

FirstResolved(pg) ==
  IF Gt0(Strategy1(pg)) THEN Strategy1(pg)
  ELSE IF Gt0(Strategy2(pg)) THEN Strategy2(pg)
  ELSE IF Gt0(Strategy3(pg)) THEN Strategy3(pg)
  ELSE Strategy4(pg)

\* C9: the strategies are tried in the order selector lookup, script-context
\* object, free-text scan, document title, and the Sample carries the (rounded)
\* value of the first one that resolves a positive number; a failure is
\* returned only when none does.
C9_FirstStrategyWins ==
  xResult # Pending =>
    IF Gt0(FirstResolved(xPage))
    THEN /\ xResult.kind = "sample"
         /\ xResult.price =
              ToFixed(FirstResolved(xPage), IF Gt1(FirstResolved(xPage)) THEN 2 ELSE 8)
    ELSE xResult = NullResult

\* v as a whole number of units of 10^-n, for n >= v.e
Scaled(v, n) == (IF v.neg THEN 0 - v.m ELSE v.m) * Pow10(n - v.e)
Distance(a, b) == IF a >= b THEN a - b ELSE b - a
Largest(S) == CHOOSE n \in S : \A k \in S : k <= n

\* r is v rounded to d decimals: r has at most d decimals and lies within
\* half a unit of the d-th decimal of v; what is not a number stays so
RoundedTo(r, v, d) ==
  IF v.nan THEN r.nan
  ELSE LET n == Largest({r.e, v.e, d})
       IN /\ ~r.nan /\ r.e <= d
          /\ 2 * Distance(Scaled(r, n), Scaled(v, n)) <= Pow10(n - d)

GreaterThanOne(v) == ~v.nan /\ Scaled(v, v.e) > Pow10(v.e)

\* C40: the price of a returned Sample is the resolved price rounded to 2
\* decimals when that price is greater than 1 and to 8 decimals otherwise (a
\* price of exactly 1 included), and its changePercent is the resolved
\* changePercent rounded to 2 decimals.
C40_Rounding ==
  xResult.kind = "sample" =>
    /\ RoundedTo(xResult.price, Resolved(xPage).price,
                 IF GreaterThanOne(Resolved(xPage).price) THEN 2 ELSE 8)
    /\ RoundedTo(xResult.changePercent, Resolved(xPage).changePercent, 2)

\* C40 case: a price above 1 with more than 2 decimals and a changePercent with
\* more than 2 decimals were resolved, and both were changed by the rounding
C40_Witness ==
  /\ xResult.kind = "sample"
  /\ GreaterThanOne(Resolved(xPage).price) /\ Resolved(xPage).price.e > 2
  /\ xResult.price # Resolved(xPage).price
  /\ Resolved(xPage).changePercent.e > 2
  /\ xResult.changePercent # Resolved(xPage).changePercent

\* the selectors resolve no price and the page's TradingView.symbol object is
\* there without a positive price
GlobalObjectEmpty(pg) ==
  /\ ~Gt0(SelectorPrice(pg))
  /\ pg.tv.present /\ ~Gt0(GlobalObject(pg).price)

Returned(price) ==
  /\ xResult.kind = "sample"
  /\ xResult.price = ToFixed(price, IF Gt1(price) THEN 2 ELSE 8)

\* C27: when the selectors resolve no price and the global data object is
\* there but yields no positive price, the text scan and then the title are
\* still tried: the Extractor returns the price the text scan finds, or else
\* the price the title holds.
C27_FallsThrough ==
  (xResult # Pending /\ GlobalObjectEmpty(xPage)) =>
    /\ Gt0(TextScan(xPage).price) => Returned(TextScan(xPage).price)
    /\ (~Gt0(TextScan(xPage).price) /\ Gt0(TitlePrice(xPage))) =>
         Returned(TitlePrice(xPage))

\* no strategy resolves a change-percent token on the page: no change selector
\* matches, the TradingView.symbol object holds no change and no text of the
\* document holds a percentage
NoChangeAnywhere(pg) ==
  /\ \A i \in DOMAIN pg.changeEls : ChangeMatch(pg.changeEls[i], TRUE) = << >>
  /\ pg.tv.present => parseFloat(pg.tv.change).nan
  /\ \A i \in 1 .. Len(pg.dom) : ChangeMatch(pg.dom[i].text, TRUE) = << >>

\* C28: whenever one of the strategies resolves a positive price on the page
\* and none resolves a change-percent token, the Extractor returns a Sample
\* whose changePercent is 0, not a failure.
C28_ChangeNeverDecides ==
  (xResult # Pending /\ Gt0(FirstResolved(xPage)) /\ NoChangeAnywhere(xPage)) =>
    /\ xResult.kind = "sample"
    /\ xResult.changePercent = Zero

(***************************************************************************)
(* Claims about removal and the pipeline (specification SpecRemove)        *)
(***************************************************************************)
\* removeTicker(t) has found t and returned, t is not registered, and no
\* addTicker(t) was called after that removeTicker
RemovedNow(t) ==
  /\ t \notin DOMAIN activeTickers
  /\ \E c \in CallIds :
       /\ calls[c].op = "remove" /\ calls[c].ticker = t
       /\ calls[c].pc = "ok" /\ calls[c].page # 0
       /\ \A d \in CallIds : (d > c /\ calls[d].ticker = t) => calls[d].op # "add"

\* C34: once removeTicker(t) has returned, and until t is added again, no batch
\* written to a connection holds a Sample of t.
C34_NothingAfterRemove ==
  [][\A k \in ConnIds :
       written'[k] # written[k] =>
         LET batch == written'[k][Len(written'[k])].updates
         IN \A j \in 1 .. Len(batch) : ~RemovedNow(batch[j].ticker)]_vars

(***************************************************************************)
(* Claims about a stream of Samples (specification SpecSteady)             *)
(***************************************************************************)
HeldPending == \E i \in 1 .. Len(updateQueue) : updateQueue[i].ticker = HeldTicker
HeldWritten(k) ==
  \E i \in 1 .. Len(written[k]) :
    \E j \in 1 .. Len(written[k][i].updates) :
      written[k][i].updates[j].ticker = HeldTicker

\* C33: the Sample a Monitor forwarded last, pending while a healthy client is
\* registered, is eventually written to that client (the timers that are due
\* fire and time passes).
C33_EventuallyWritten == (Registered(1) /\ HeldPending) ~> HeldWritten(1)

(***************************************************************************)
(* Claims about the letter case of identifiers (specification SpecCase)    *)
(***************************************************************************)
ToUpperCase(t) == IF t = "btcusd" THEN "BTCUSD" ELSE t
SameButCase(a, b) == ToUpperCase(a) = ToUpperCase(b)

\* C30: two identifiers that differ only in letter case are one key of the
\* registry and have one Monitor: no two distinct keys of activeTickers, and no
\* two running timers' tickers, are equal up to letter case.
C30_CaseNormalized ==
  /\ \A a, b \in DOMAIN activeTickers : SameButCase(a, b) => a = b
  /\ \A p, q \in intervals :
       SameButCase(pages[p].ticker, pages[q].ticker) => pages[p].ticker = pages[q].ticker

(***************************************************************************)
(* Claims about the streamPrices calls (specification SpecStreams)         *)
(***************************************************************************)
ConnectedStreams == {s \in StreamIds : streams[s].status = "open"}

C29Registered ==
  /\ \A s \in StreamIds : streams[s].status = "ended" => s \notin priceCallbacks
  /\ Cardinality(priceCallbacks) = 1 + Cardinality(ConnectedStreams)
C29Step ==
  \A s \in StreamIds :
    streams[s].status = "ended" => streams'[s].priceUpdates = streams[s].priceUpdates

\* C29: the listener of a stream that has ended is not among the scraper's
\* callbacks, the callbacks are the server's batching listener and one
\* listener for each connected stream, and no update is added to the buffer of
\* a stream that has ended.
C29_ListenerDestroyed == [] C29Registered /\ [][C29Step]_vars

\* the callbacks that are streams' listeners
StreamCallbacks == priceCallbacks \cap StreamIds
\* this step is a flush of the scraper's queue
FlushStep == updateQueue # << >> /\ updateQueue' = << >>

\* C39: in a flush, whichever callbacks throw, every registered callback is
\* called with every update of the flush, in the queue's order: the server's
\* listener queues all of them and the buffer of each registered stream's
\* listener grows by all of them.
C39_AllNotified ==
  [][FlushStep =>
       /\ broadcastQueue' = broadcastQueue \o updateQueue
       /\ \A s \in StreamCallbacks :
            streams'[s].priceUpdates = streams[s].priceUpdates \o updateQueue]_vars

\* C39 case: one flush held two updates, the listener of one stream threw on
\* them, and the server's listener and another stream's listener were called
\* with both
C39_Witness ==
  \E s, r \in StreamCallbacks :
    /\ s # r /\ streams[s].threw /\ ~streams[r].threw
    /\ Len(streams[s].priceUpdates) = 2
    /\ streams[s].priceUpdates[1].ticker # streams[s].priceUpdates[2].ticker
    /\ streams[s].priceUpdates[1].timestamp = streams[s].priceUpdates[2].timestamp
    /\ streams[r].priceUpdates = streams[s].priceUpdates
    /\ broadcastQueue = streams[s].priceUpdates

(***************************************************************************)
(* Claims about the socket handlers (specification SpecClients)            *)
(***************************************************************************)
\* C18: when the close handler and the error handler both run for one
\* connection, in either order, the handler that runs second changes nothing in
\* sseClients: its client is gone already and no other client is removed.
C18_SecondRemovalNoOp ==
  [][\A k \in ConnIds :
       (conns[k].events # {} /\ conns'[k].events # conns[k].events) =>
         sseClients' = sseClients]_vars

(***************************************************************************)
(* Claims about one Monitor (specification SpecMonitor)                    *)
(***************************************************************************)
\* a callback of page p's timer ends in this step
CycleEnds(p) ==
  \E i \in 1 .. Len(inflight) : inflight[i].page = p /\ inflight' = RemoveAt(inflight, i)

\* p is the page of a registered ticker that never had another page
SoleMonitor(p) ==
  /\ pages[p].ticker \in DOMAIN activeTickers
  /\ activeTickers[pages[p].ticker].page = p
  /\ \A q \in PageIds \ {p} : pages[q].ticker # pages[p].ticker

C19TimerKept ==
  \A p \in PageIds : (pages[p].onClose /\ pages[p].status = "open") => p \in intervals
C19CycleStep ==
  \A p \in PageIds :
    CycleEnds(p) =>
      /\ intervals' = intervals
      /\ DOMAIN activeTickers' = DOMAIN activeTickers
      /\ \A q \in PageIds : pages'[q].status = pages[q].status
      /\ (SoleMonitor(p) /\ pages'[p].lastSeen # pages[p].lastSeen) =>
           /\ forwarded' # << >>
           /\ forwarded'[1].page = p
           /\ forwarded'[1].prev = pages[p].lastSeen
           /\ <<Pair(forwarded'[1].sample)>> = pages'[p].lastSeen

\* C19: a cycle, failed or not, leaves the timers, the registered tickers and
\* the pages as they are, so that a Monitor whose page has not been closed
\* always has its timer running; and a cycle of a registered ticker's Monitor
\* whose extraction succeeds with a pair other than that of its last successful
\* cycle forwards that Sample, however many cycles have failed before.
C19_FailuresDoNotStop == [] C19TimerKept /\ [][C19CycleStep]_vars

\* C19 case: the initial extraction failed, a cycle of the timer failed, and a
\* later cycle, the first to succeed, was forwarded; the timer still runs
C19_Witness ==
  /\ fired = 2 /\ inflight = << >>
  /\ 1 \in intervals /\ pages[1].status = "open" /\ "BTCUSD" \in DOMAIN activeTickers
  /\ forwarded # << >> /\ forwarded[1].prev = << >>
  /\ activeTickers["BTCUSD"].lastPrice = forwarded[1].sample.price
  /\ Gt0(forwarded[1].sample.price)

\* the pair recorded in the TickerState of ticker t
Recorded(t) == <<activeTickers[t].lastPrice, activeTickers[t].lastChange>>

C26Step ==
  \A i \in 1 .. Len(inflight) :
    inflight' = RemoveAt(inflight, i) =>
      /\ DOMAIN activeTickers' = DOMAIN activeTickers
      /\ sseClients' = sseClients
      /\ <<activeTickers, updateQueue, batchUpdateTimer, forwarded>>'
           # <<activeTickers, updateQueue, batchUpdateTimer, forwarded>> =>
           LET sample == forwarded'[1].sample
           IN /\ sample.ticker = inflight[i].ticker
              /\ sample.ticker \in DOMAIN activeTickers
              /\ pages'[inflight[i].page].lastSeen = <<Pair(sample)>>
              /\ Pair(sample) # Recorded(sample.ticker)

ExtractionsInFlight(t) ==
  Cardinality({i \in 1 .. Len(inflight) : inflight[i].ticker = t})
  + Cardinality({c \in CallIds : Suspended(calls[c]) /\ calls[c].ticker = t})

\* C20: at most one extraction per ticker is in flight at any time.
C20_SequentialSampling == \A t \in Tickers : ExtractionsInFlight(t) <= 1

(***************************************************************************)
(* Claims about a hung Monitor (specification SpecHang)                    *)
(***************************************************************************)
\* a Sample of the healthy ticker waits in the scraper's or the server's queue
PendingHealthy ==
  \E i \in 1 .. Len(updateQueue \o broadcastQueue) :
    (updateQueue \o broadcastQueue)[i].ticker = HealthyTicker

\* the batches written to connection k that hold a Sample of the healthy ticker
HealthyBatches(k) ==
  Cardinality({i \in 1 .. Len(written[k]) :
                 \E j \in 1 .. Len(written[k][i].updates) :
                   written[k][i].updates[j].ticker = HealthyTicker})

\* the initial extraction of the hung ticker is suspended and will not resume
HungSuspended == Suspended(calls[HungCall])

C23Sampled ==
  (HealthyCall \in intervals /\ InFlightOf(HealthyCall) = 0 /\ fired < MaxHangFires)
  ~> (InFlightOf(HealthyCall) > 0)
C23Extracted == (InFlightOf(HealthyCall) > 0) ~> (InFlightOf(HealthyCall) = 0)
C23Delivered ==
  \A n \in 0 .. MaxHangFires + 2 :
    (Registered(1) /\ PendingHealthy /\ HealthyBatches(1) = n)
    ~> (HealthyBatches(1) > n)

\* C23: while the extraction of one ticker stays suspended for ever, the timer
\* of another registered ticker goes on firing, each of its extractions completes,
\* and every Sample it forwards is flushed and written to the registered
\* client.
C23_HungMonitorIsolated == C23Sampled /\ C23Extracted /\ C23Delivered

\* C23 case: the initial extraction of the hung ticker is suspended; the
\* healthy ticker's timer has fired twice and the Sample of its last cycle has
\* been written to the client
C23_Witness ==
  /\ HungSuspended /\ fired = MaxHangFires /\ InFlightOf(HealthyCall) = 0
  /\ forwarded # << >> /\ forwarded[1].page = HealthyCall /\ forwarded[1].prev # << >>
  /\ written[1] # << >>
  /\ forwarded[1].sample \in Samples(written[1][Len(written[1])].updates)

(***************************************************************************)
(* Claims about what the monitors forward (specification Spec)             *)
(***************************************************************************)
\* the values the four strategies resolve on the pages a Monitor may read, as
\* emitted
StrategyPrices ==
  {ToFixed(v, IF Gt1(v) THEN 2 ELSE 8) :
     v \in {w \in UNION {{Strategy1(pg), Strategy2(pg), Strategy3(pg), Strategy4(pg)} :
                           pg \in MonitorPages} : Gt0(w)}}

\* C17: every Sample handed to queuePriceUpdate carries the ticker of the page
\* it was read from and a value that one of the four strategies resolves on
\* that page; nothing is forwarded when all strategies fail.
C17_OnlyExtractedValues ==
  \A i \in 1 .. Len(forwarded) :
    /\ forwarded[i].sample.price \in StrategyPrices
    /\ forwarded[i].sample.ticker = pages[forwarded[i].page].ticker

\* C17 case: a Sample has been forwarded for one page, and on another page,
\* whose Monitor is running, every extraction so far has failed
C17_Witness ==
  /\ forwarded # << >>
  /\ \E p \in intervals :
       /\ p # forwarded[1].page
       /\ pages[p].ticker # pages[forwarded[1].page].ticker
       /\ pages[p].lastSeen = << >>

====
